---------------------------- MODULE Spec2Model ----------------------------
(***************************************************************************)
(* Model of ppiankov/entropia: the batch worker pool (internal/worker),    *)
(* the evidence validator (internal/validate), the scorer (internal/score) *)
(* the fetch retry wrapper (internal/pipeline), the layered cache          *)
(* (internal/cache), Pipeline.ScanURL (internal/pipeline), the per-domain  *)
(* rate limiter (internal/worker), the robots.txt checker and the          *)
(* authority classifier (internal/validate).                               *)
(***************************************************************************)
EXTENDS Integers, Sequences, FiniteSets, TLC

(* ------------------------------ bounds -------------------------------- *)
\* largest number of URLs handed to ProcessURLs
MaxJobs == 6
\* largest concurrency handed to NewBatchProcessor / NewPool
MaxConcurrency == 2
\* largest number of jobs submitted by a pool client that may be shut down
MaxClientJobs == 3
\* longest evidence list handed to Validate
MaxEvidence == 2
\* largest maxWorkers handed to NewValidator
MaxValidationWorkers == 2
\* most claims handed to Calculate
MaxClaims == 2
\* largest evidence count handed to Calculate
MaxScoreEvidence == 3
\* most validation results handed to Calculate
MaxValidations == 2
\* last instant of the clock read by the cache
MaxTime == 3
\* largest ttl handed to NewLayeredCache and to Set
MaxTTL == 2

\* longest redirect chain a server answers with
MaxHops == 4
\* cfg.HTTP.MaxBodyBytes handed to NewFetcher (2,000,000 by default), scaled
MaxBodyBytes == 2

\* most calls of Wait, Allow and SetDomainRate on one Limiter
MaxLimiterCalls == 3
\* last instant of the clock read by the rate limiters
MaxLimiterTime == 2
\* most calls of CanFetch on one RobotsChecker
MaxRobotsCalls == 3
\* longest config.PathPatterns handed to NewAuthorityClassifier
MaxPatterns == 2

VARIABLES
    \* ---- internal/worker: BatchProcessor + Pool ----
    urls,            \* number of URLs of the batch; job j is the job of URL j
    concurrency,     \* BatchProcessor.concurrency as configured
    workers,         \* Pool.workers (0 until NewPool has run)
    jobQueue,        \* Pool.jobQueue: buffered channel content
    jobQueueClosed,  \* close(p.jobQueue) has happened
    results,         \* Pool.results: buffered channel content
    resultsClosed,   \* number of times close(p.results) has run
    closeOnce,       \* Pool.closeOnce has fired
    poolCtxDone,     \* Pool.ctx is cancelled
    wpc,             \* position of each worker goroutine
    wjob,            \* job / result held by each worker
    mainPC,          \* position of ProcessURLs
    nextJob,         \* loop index of the Submit loop
    dropped,         \* jobs whose Submit returned on <-p.ctx.Done()
    collected,       \* the slice built by Wait
    closerPC,        \* position of the goroutine spawned by Wait
    sdPC,            \* position of a caller of Shutdown
    execCount,       \* how many times Execute ran for each job
    queuedAtShutdown, \* jobs accepted by Submit when the context was cancelled
    batchCtxDone,    \* the ctx handed to ProcessURLs is cancelled or expired
    \* ---- internal/validate: Validator ----
    evidence,        \* the evidence list handed to Validate (URLs)
    cfgMaxWorkers,   \* maxWorkers as handed to NewValidator
    maxWorkers,      \* Validator.maxWorkers
    ctxDone,         \* the context handed to Validate is cancelled
    valPC,           \* position of Validate
    spawned,         \* number of goroutines started by the range loop
    gpc,             \* position of each per-evidence goroutine
    attempt,         \* loop variable of validateSingleWithRetry
    gresult,         \* local `result` of validateSingleWithRetry
    vresults,        \* the pre-allocated results slice
    semaphore,       \* number of tokens in the semaphore channel
    heads,           \* HEAD attempts issued for each evidence item
    cancelledEarly,  \* items whose probe had not begun when ctx was cancelled
    \* ---- internal/score: Scorer ----
    sClaims,         \* the claims handed to Calculate (their texts)
    sEvidenceCount,  \* len(evidence) handed to Calculate
    sValidation,     \* the validation results handed to Calculate
    sScore,          \* the model.Score returned by Calculate
    sPage,           \* the page the score is computed for (TLS, Wikipedia)
    scorePC,         \* position of the caller of Calculate
    \* ---- internal/pipeline: Fetcher ----
    fetchPC,         \* position of FetchWithRetry
    fetchAttempt,    \* loop variable of FetchWithRetry
    fetchLog,        \* what each GET of this call met, in order
    fetchLast,       \* what the last call of Fetch returned
    fetchReturn,     \* what FetchWithRetry returned
    \* ---- internal/cache: LayeredCache ----
    now,             \* time.Now()
    memoryTTL,       \* default expiration of the memory tier
    diskTTL,         \* DiskCache.ttl
    memory,          \* MemoryCache: the items of the go-cache instance
    disk,            \* DiskCache: the entry files of the cache directory
    lastGet,         \* what LayeredCache.Get has just returned
    lastDelete,      \* what LayeredCache.Delete or Clear has just returned
    stored,          \* per key, what the last Set stored if it succeeded
    \* ---- internal/pipeline: Pipeline.ScanURL ----
    scanConfig,      \* Pipeline.config: cache enabled, summarizer, cache TTL
    scanLast,        \* what the call of ScanURL that just returned did
    \* ---- one HEAD probe and one page GET against the same server ----
    probe,           \* the URL, its redirect chain and the final answer
    headLast,        \* what the per-evidence goroutine wrote for the URL
    getLast,         \* what Fetcher.Fetch returned for the URL
    \* ---- internal/worker: Limiter ----
    limInterval,     \* Limiter.defaultRate, as clock ticks per token
    limBurst,        \* Limiter.defaultBurst
    limNow,          \* time.Now() as read by the rate limiters
    limiters,        \* Limiter.limiters: host -> *rate.Limiter (0: no entry)
    buckets,         \* the rate.Limiter objects created so far
    lpc,             \* each goroutine calling Wait or Allow
    limLast,         \* what the call that completed last was and returned
    granted,         \* per host, the instants at which a request was let go
    created,         \* per host, how many buckets getLimiter has created
    overridden,      \* hosts SetDomainRate was called for
    limCalls,         \* calls of Wait, Allow and SetDomainRate made so far
    \* ---- util: RobotsChecker ----
    robotsCache,     \* RobotsChecker.cache: host -> parsed robots.txt
    rpc,             \* each goroutine calling CanFetch
    robotsFetches,   \* per host, the GETs of its robots.txt sent so far
    robotsLast,      \* what the call of CanFetch that returned last did
    robotsCalls,      \* calls of CanFetch and Clear made so far
    \* ---- internal/validate: AuthorityClassifier ----
    cConfig,         \* the model.AuthorityConfig handed to NewAuthorityClassifier
    cURL,            \* the rawURL handed to Classify
    cResult          \* what Classify returned

poolVars == <<urls, concurrency, workers, jobQueue, jobQueueClosed, results,
              resultsClosed, closeOnce, poolCtxDone, wpc, wjob, mainPC,
              nextJob, dropped, collected, closerPC, sdPC, execCount,
              queuedAtShutdown>>

\* the caller of ProcessURLs
callerVars == <<batchCtxDone>>

valVars == <<evidence, cfgMaxWorkers, maxWorkers, ctxDone, valPC, spawned,
             gpc, attempt, gresult, vresults, semaphore, heads, cancelledEarly>>

scoreVars == <<sClaims, sEvidenceCount, sValidation, sScore, sPage, scorePC>>

fetchVars == <<fetchPC, fetchAttempt, fetchLog, fetchLast, fetchReturn>>

cacheVars ==
    <<now, memoryTTL, diskTTL, memory, disk, lastGet, lastDelete, stored>>

scanVars == <<scanConfig, scanLast>>

probeVars == <<probe, headLast, getLast>>

limVars == <<limInterval, limBurst, limNow, limiters, buckets, lpc, limLast,
             granted, created, overridden, limCalls>>

robotsVars == <<robotsCache, rpc, robotsFetches, robotsLast, robotsCalls>>

classVars == <<cConfig, cURL, cResult>>

vars == <<poolVars, callerVars, valVars, scoreVars, fetchVars, cacheVars,
          scanVars, probeVars,
      limVars,
      robotsVars,
      classVars>>

\* everything outside internal/worker
notPool ==
    <<callerVars, valVars, scoreVars, fetchVars, cacheVars, scanVars,
      probeVars,
      limVars,
      robotsVars,
      classVars>>

\* everything outside internal/validate
notVal ==
    <<poolVars, callerVars, scoreVars, fetchVars, cacheVars, scanVars,
      probeVars,
      limVars,
      robotsVars,
      classVars>>

\* everything outside internal/score
notScore ==
    <<poolVars, callerVars, valVars, fetchVars, cacheVars, scanVars,
      probeVars,
      limVars,
      robotsVars,
      classVars>>

\* everything outside the fetcher
notFetch ==
    <<poolVars, callerVars, valVars, scoreVars, cacheVars, scanVars,
      probeVars,
      limVars,
      robotsVars,
      classVars>>

\* everything outside internal/cache
notCache ==
    <<poolVars, callerVars, valVars, scoreVars, fetchVars, scanVars,
      probeVars,
      limVars,
      robotsVars,
      classVars>>

\* everything outside Pipeline.ScanURL and the cache it uses
notScan ==
    <<poolVars, callerVars, valVars, scoreVars, fetchVars, probeVars,
      limVars,
      robotsVars,
      classVars>>

\* everything but the context of the caller of ProcessURLs
notCaller ==
    <<poolVars, valVars, scoreVars, fetchVars, cacheVars, scanVars, probeVars,
      limVars,
      robotsVars,
      classVars>>

\* everything outside the single probe
notProbe ==
    <<poolVars, callerVars, valVars, scoreVars, fetchVars, cacheVars, scanVars,
      limVars,
      robotsVars,
      classVars>>

\* everything outside the rate limiter
notLimiter ==
    <<poolVars, callerVars, valVars, scoreVars, fetchVars, cacheVars, scanVars, probeVars,
      robotsVars,
      classVars>>

\* everything outside the robots checker
notRobots ==
    <<poolVars, callerVars, valVars, scoreVars, fetchVars, cacheVars, scanVars, probeVars, limVars,
      classVars>>

\* everything outside the authority classifier
notClass ==
    <<poolVars, callerVars, valVars, scoreVars, fetchVars, cacheVars, scanVars, probeVars, limVars, robotsVars>>

(* ===================== internal/worker/pool.go ========================= *)

WorkerIds == 1..MaxConcurrency
Jobs == 1..MaxJobs

\* the injected Scanner: ScanURL fails for these URLs and succeeds for the rest
FailingURLs == {2}

\* no job held / Execute has not returned yet
NoResult(j) == [url |-> j, report |-> "nil", error |-> "nil"]

\* ScanJob.Execute dropping the error of a failed scan
Execute_ErrorDropped(j) ==
    [url |-> j,
     report |-> IF j \in FailingURLs THEN "nil" ELSE "report",
     error |-> "nil"]

\* ScanJob.Execute: {URL, Report: nil, Error: err} or {URL, Report, Error: nil}
Execute(j) ==
    [url |-> j,
     report |-> IF j \in FailingURLs THEN "nil" ELSE "report",
     error |-> IF j \in FailingURLs THEN "scan failed" ELSE "nil"]

\* workers <= 0 is replaced by 1 (NewPool)
NormalizeWorkers(n) == IF n <= 0 THEN 1 ELSE n

\* cap(p.jobQueue) = cap(p.results) = workers*2
ChanCap(w) == w * 2

\* number of worker goroutines that have not yet called wg.Done()
WgCount == Cardinality({w \in WorkerIds : wpc[w] \in {"idle", "exec", "send"}})

Executing == {w \in WorkerIds : wpc[w] = "exec"}

\* a batch processor of concurrency c for n URLs; its pool is not created yet
InitPoolWith(n, c) ==
    /\ urls = n
    /\ concurrency = c
    /\ workers = 0
    /\ jobQueue = <<>>
    /\ jobQueueClosed = FALSE
    /\ results = <<>>
    /\ resultsClosed = 0
    /\ closeOnce = FALSE
    /\ poolCtxDone = FALSE
    /\ wpc = [w \in WorkerIds |-> "none"]
    /\ wjob = [w \in WorkerIds |-> NoResult(0)]
    /\ mainPC = "start"
    /\ nextJob = 1
    /\ dropped = {}
    /\ collected = <<>>
    /\ closerPC = "none"
    /\ sdPC = "idle"
    /\ execCount = [j \in Jobs |-> 0]
    /\ queuedAtShutdown = {}
    /\ batchCtxDone = FALSE

InitPool == \E n \in 0..MaxJobs, c \in -1..MaxConcurrency : InitPoolWith(n, c)

InitClient == \E n \in 0..MaxClientJobs, c \in -1..MaxConcurrency : InitPoolWith(n, c)

\* no batch is running
IdlePool == InitPoolWith(0, 1)

\* ProcessURLs with an empty list returns without creating a pool
ProcessEmpty ==
    /\ mainPC = "start"
    /\ urls = 0
    /\ mainPC' = "returned"
    /\ UNCHANGED <<urls, concurrency, workers, jobQueue, jobQueueClosed,
                   results, resultsClosed, closeOnce, poolCtxDone, wpc, wjob,
                   nextJob, dropped, collected, closerPC, sdPC, execCount,
                   queuedAtShutdown>>
    /\ UNCHANGED notPool

StartedWorkers_Extra(n) == 1..(n + 1)

\* Pool.Start: one goroutine per i in [0, p.workers)
StartedWorkers(n) == 1..n

\* NewPool(b.concurrency) followed by pool.Start()
NewPoolStart ==
    /\ mainPC = "start"
    /\ urls > 0
    /\ workers' = NormalizeWorkers(concurrency)
    /\ wpc' = [w \in WorkerIds |->
                 IF w \in StartedWorkers(workers') THEN "idle" ELSE "none"]
    /\ mainPC' = "submit"
    /\ UNCHANGED <<urls, concurrency, jobQueue, jobQueueClosed, results,
                   resultsClosed, closeOnce, poolCtxDone, wjob, nextJob,
                   dropped, collected, closerPC, sdPC, execCount,
                   queuedAtShutdown>>
    /\ UNCHANGED notPool

\* Pool.Submit, case p.jobQueue <- job
SubmitEnqueue ==
    /\ mainPC = "submit"
    /\ nextJob <= urls
    /\ Len(jobQueue) < ChanCap(workers)
    /\ jobQueue' = Append(jobQueue, nextJob)
    /\ nextJob' = nextJob + 1
    /\ UNCHANGED <<urls, concurrency, workers, jobQueueClosed, results,
                   resultsClosed, closeOnce, poolCtxDone, wpc, wjob, mainPC,
                   dropped, collected, closerPC, sdPC, execCount,
                   queuedAtShutdown>>
    /\ UNCHANGED notPool

\* Pool.Submit, case <-p.ctx.Done(): the job is dropped
SubmitDropped ==
    /\ mainPC = "submit"
    /\ nextJob <= urls
    /\ poolCtxDone
    /\ dropped' = dropped \cup {nextJob}
    /\ nextJob' = nextJob + 1
    /\ UNCHANGED <<urls, concurrency, workers, jobQueue, jobQueueClosed,
                   results, resultsClosed, closeOnce, poolCtxDone, wpc, wjob,
                   mainPC, collected, closerPC, sdPC, execCount,
                   queuedAtShutdown>>
    /\ UNCHANGED notPool

\* Pool.Wait: close(p.jobQueue) and spawn the goroutine that closes results
WaitClose ==
    /\ mainPC = "submit"
    /\ nextJob > urls
    /\ jobQueueClosed' = TRUE
    /\ closerPC' = "waiting"
    /\ mainPC' = "collect"
    /\ UNCHANGED <<urls, concurrency, workers, jobQueue, results,
                   resultsClosed, closeOnce, poolCtxDone, wpc, wjob, nextJob,
                   dropped, collected, sdPC, execCount, queuedAtShutdown>>
    /\ UNCHANGED notPool

\* Pool.Wait: one iteration of `for result := range p.results`
WaitCollect ==
    /\ mainPC = "collect"
    /\ results # <<>>
    /\ collected' = Append(collected, Head(results))
    /\ results' = Tail(results)
    /\ UNCHANGED <<urls, concurrency, workers, jobQueue, jobQueueClosed,
                   resultsClosed, closeOnce, poolCtxDone, wpc, wjob, mainPC,
                   nextJob, dropped, closerPC, sdPC, execCount,
                   queuedAtShutdown>>
    /\ UNCHANGED notPool

\* Pool.Wait: the range loop ends on the closed, drained channel;
\* ProcessURLs converts the results and returns
WaitReturn ==
    /\ mainPC = "collect"
    /\ results = <<>>
    /\ resultsClosed > 0
    /\ mainPC' = "returned"
    /\ UNCHANGED <<urls, concurrency, workers, jobQueue, jobQueueClosed,
                   results, resultsClosed, closeOnce, poolCtxDone, wpc, wjob,
                   nextJob, dropped, collected, closerPC, sdPC, execCount,
                   queuedAtShutdown>>
    /\ UNCHANGED notPool

\* Pool.closeResults: closeOnce.Do(close(p.results))
CloseResultsCount_NoOnce == resultsClosed + 1

\* Pool.closeResults: close(p.results) runs under p.closeOnce
CloseResultsCount == IF closeOnce THEN resultsClosed ELSE resultsClosed + 1

\* goroutine of Wait: p.wg.Wait(); p.closeResults()
CloserClose ==
    /\ closerPC = "waiting"
    /\ WgCount = 0
    /\ resultsClosed' = CloseResultsCount
    /\ closeOnce' = TRUE
    /\ closerPC' = "done"
    /\ UNCHANGED <<urls, concurrency, workers, jobQueue, jobQueueClosed,
                   results, poolCtxDone, wpc, wjob, mainPC, nextJob, dropped,
                   collected, sdPC, execCount, queuedAtShutdown>>
    /\ UNCHANGED notPool

\* worker: case job, ok := <-p.jobQueue with ok = true; Execute begins
WorkerTake(w) ==
    /\ wpc[w] = "idle"
    /\ jobQueue # <<>>
    /\ wjob' = [wjob EXCEPT ![w] = NoResult(Head(jobQueue))]
    /\ jobQueue' = Tail(jobQueue)
    /\ wpc' = [wpc EXCEPT ![w] = "exec"]
    /\ execCount' = [execCount EXCEPT ![Head(jobQueue)] = @ + 1]
    /\ UNCHANGED <<urls, concurrency, workers, jobQueueClosed, results,
                   resultsClosed, closeOnce, poolCtxDone, mainPC, nextJob,
                   dropped, collected, closerPC, sdPC, queuedAtShutdown>>
    /\ UNCHANGED notPool

\* worker: job.Execute(p.ctx) returns its result
WorkerExecDone(w) ==
    /\ wpc[w] = "exec"
    /\ wjob' = [wjob EXCEPT ![w] = Execute(wjob[w].url)]
    /\ wpc' = [wpc EXCEPT ![w] = "send"]
    /\ UNCHANGED <<urls, concurrency, workers, jobQueue, jobQueueClosed,
                   results, resultsClosed, closeOnce, poolCtxDone, mainPC,
                   nextJob, dropped, collected, closerPC, sdPC, execCount,
                   queuedAtShutdown>>
    /\ UNCHANGED notPool

WorkerSend_Lost(w) ==
    /\ wpc[w] = "send"
    /\ Len(results) < ChanCap(workers)
    /\ wpc' = [wpc EXCEPT ![w] = "idle"]
    /\ UNCHANGED <<urls, concurrency, workers, jobQueue, jobQueueClosed,
                   results, resultsClosed, closeOnce, poolCtxDone, wjob,
                   mainPC, nextJob, dropped, collected, closerPC, sdPC,
                   execCount, queuedAtShutdown>>
    /\ UNCHANGED notPool

\* worker: case p.results <- result
WorkerSend(w) ==
    /\ wpc[w] = "send"
    /\ Len(results) < ChanCap(workers)
    /\ results' = Append(results, wjob[w])
    /\ wpc' = [wpc EXCEPT ![w] = "idle"]
    /\ UNCHANGED <<urls, concurrency, workers, jobQueue, jobQueueClosed,
                   resultsClosed, closeOnce, poolCtxDone, wjob, mainPC,
                   nextJob, dropped, collected, closerPC, sdPC, execCount,
                   queuedAtShutdown>>
    /\ UNCHANGED notPool

\* worker: case <-p.ctx.Done() of either select; the held result is dropped
WorkerExitCancelled(w) ==
    /\ wpc[w] \in {"idle", "send"}
    /\ poolCtxDone
    /\ wpc' = [wpc EXCEPT ![w] = "exited"]
    /\ UNCHANGED <<urls, concurrency, workers, jobQueue, jobQueueClosed,
                   results, resultsClosed, closeOnce, poolCtxDone, wjob,
                   mainPC, nextJob, dropped, collected, closerPC, sdPC,
                   execCount, queuedAtShutdown>>
    /\ UNCHANGED notPool

\* worker: job, ok := <-p.jobQueue with ok = false (closed and drained)
WorkerExitClosed(w) ==
    /\ wpc[w] = "idle"
    /\ jobQueue = <<>>
    /\ jobQueueClosed
    /\ wpc' = [wpc EXCEPT ![w] = "exited"]
    /\ UNCHANGED <<urls, concurrency, workers, jobQueue, jobQueueClosed,
                   results, resultsClosed, closeOnce, poolCtxDone, wjob,
                   mainPC, nextJob, dropped, collected, closerPC, sdPC,
                   execCount, queuedAtShutdown>>
    /\ UNCHANGED notPool

\* Pool.Shutdown: p.cancelFunc()
ShutdownCancel ==
    /\ sdPC = "idle"
    /\ mainPC \in {"submit", "collect"}
    /\ poolCtxDone' = TRUE
    /\ sdPC' = "waitwg"
    /\ queuedAtShutdown' = (1..(nextJob - 1)) \ dropped
    /\ UNCHANGED <<urls, concurrency, workers, jobQueue, jobQueueClosed,
                   results, resultsClosed, closeOnce, wpc, wjob, mainPC,
                   nextJob, dropped, collected, closerPC, execCount>>
    /\ UNCHANGED notPool

\* Pool.Shutdown: p.wg.Wait(); p.closeResults()
ShutdownClose ==
    /\ sdPC = "waitwg"
    /\ WgCount = 0
    /\ resultsClosed' = CloseResultsCount
    /\ closeOnce' = TRUE
    /\ sdPC' = "done"
    /\ UNCHANGED <<urls, concurrency, workers, jobQueue, jobQueueClosed,
                   results, poolCtxDone, wpc, wjob, mainPC, nextJob, dropped,
                   collected, closerPC, execCount, queuedAtShutdown>>
    /\ UNCHANGED notPool

\* the ctx handed to ProcessURLs is cancelled or its deadline passes while
\* the batch runs; ProcessURLs hands it to nobody (NewPool derives the pool's
\* context from context.Background())
CancelBatchCtx ==
    /\ ~batchCtxDone
    /\ mainPC # "returned"
    /\ batchCtxDone' = TRUE
    /\ UNCHANGED notCaller

\* ProcessURLs: nobody but ProcessURLs holds the pool, Shutdown is never called
NextBatch ==
    \/ ProcessEmpty
    \/ NewPoolStart
    \/ SubmitEnqueue
    \/ WaitClose
    \/ WaitCollect
    \/ WaitReturn
    \/ CloserClose
    \/ \E w \in WorkerIds : WorkerTake(w)
    \/ \E w \in WorkerIds : WorkerExecDone(w)
    \/ \E w \in WorkerIds : WorkerSend(w)
    \/ \E w \in WorkerIds : WorkerExitClosed(w)

\* a pool client that does what ProcessURLs does while another goroutine may
\* call Shutdown
Next ==
    \/ NextBatch
    \/ SubmitDropped
    \/ \E w \in WorkerIds : WorkerExitCancelled(w)
    \/ ShutdownCancel
    \/ ShutdownClose

\* ProcessURLs under a caller who may cancel the context it handed in
NextDeadline ==
    \/ NextBatch
    \/ CancelBatchCtx

(* =================== internal/validate/validator.go =================== *)

\* model.AuthorityTier
TierUnknown == 0
TierPrimary == 1
TierSecondary == 2
TierTertiary == 3

Tiers == {TierUnknown, TierPrimary, TierSecondary, TierTertiary}

(* =============== internal/validate: AuthorityClassifier ================ *)

\* all sequences over S of length at most n
SeqsUpTo(S, n) == UNION {[1..k -> S] : k \in 0..n}

\* host names are sequences of labels: <<"a", "gov">> is a.gov
HostsTried ==
    {<<"a", "gov">>, <<"w", "a", "gov">>, <<"x", "com">>, <<"x", "ac", "uk">>,
     <<"y", "org">>}

PathsTried == {"/doc", "/blog"}

\* the URLs handed to Classify, with and without a port, and a string
\* url.Parse rejects
ClassifyURLs ==
    {[valid |-> TRUE, host |-> h, port |-> p, path |-> q] :
        h \in HostsTried, p \in BOOLEAN, q \in PathsTried}
      \cup {[valid |-> FALSE, host |-> <<>>, port |-> FALSE, path |-> ""]}

\* config.DomainMap: nil, or hosts mapped to tier strings
DomainMapsTried ==
    {<<>>,
     [h \in {<<"a", "gov">>} |-> "secondary"],
     [h \in {<<"a", "gov">>} |-> "tertiary"],
     [h \in {<<"x", "com">>} |-> "primary"],
     [h \in {<<"w", "a", "gov">>, <<"x", "com">>} |->
         IF h = <<"x", "com">> THEN "secondary" ELSE "tertiary"]}

\* config.PrimaryDomains and config.SecondaryDomains
PrimaryDomainsTried == SUBSET {<<"a", "gov">>, <<"com">>}

SecondaryDomainsTried == SUBSET {<<"a", "gov">>, <<"x", "com">>}

\* config.PathPatterns entries: a pattern is carried as the paths its regular
\* expression matches; the last one does not compile
PatternsTried ==
    {[compiles |-> TRUE, matches |-> {"/doc"}, tier |-> "Primary"],
     [compiles |-> TRUE, matches |-> {"/doc", "/blog"}, tier |-> "secondary"],
     [compiles |-> FALSE, matches |-> {"/doc", "/blog"}, tier |-> "primary"]}

\* strings.ToLower on the tier strings tried
ToLower(str) ==
    IF str = "Primary" THEN "primary"
    ELSE IF str = "Secondary" THEN "secondary"
    ELSE IF str = "Tertiary" THEN "tertiary"
    ELSE str

\* parseTierString
parseTierString(tier) ==
    IF ToLower(tier) \in {"primary", "1"} THEN TierPrimary
    ELSE IF ToLower(tier) \in {"secondary", "2"} THEN TierSecondary
    ELSE TierTertiary

\* NewAuthorityClassifier: the tier of a path pattern
PatternTier(tier) ==
    IF ToLower(tier) = "primary" THEN TierPrimary
    ELSE IF ToLower(tier) = "secondary" THEN TierSecondary
    ELSE TierTertiary

\* NewAuthorityClassifier: the patterns that compile, in the order configured
RECURSIVE CompilePatterns(_)
CompilePatterns(patterns) ==
    IF patterns = <<>> THEN <<>>
    ELSE IF Head(patterns).compiles
    THEN <<[matches |-> Head(patterns).matches,
            tier |-> PatternTier(Head(patterns).tier)]>>
           \o CompilePatterns(Tail(patterns))
    ELSE CompilePatterns(Tail(patterns))

\* url.Parse(rawURL).Host: the host name, followed by the port if the URL
\* names one
ParsedHost(rawURL) ==
    IF rawURL.port THEN Append(rawURL.host, ":443") ELSE rawURL.host

\* if idx := strings.Index(host, ":"); idx > 0 { host = host[:idx] }
StripPort(host) ==
    IF Len(host) > 1 /\ host[Len(host)] = ":443"
    THEN SubSeq(host, 1, Len(host) - 1)
    ELSE host

\* strings.HasSuffix(host, "."+domain) || host == domain
HostInDomain(host, domain) ==
    \/ host = domain
    \/ /\ Len(host) > Len(domain)
       /\ SubSeq(host, Len(host) - Len(domain) + 1, Len(host)) = domain

\* for domain := range map: the domains visited in the order the runtime
\* picks; true at the first one the host is in
RECURSIVE RangeHasDomain(_, _)
RangeHasDomain(order, host) ==
    IF order = <<>> THEN FALSE
    ELSE IF HostInDomain(host, Head(order)) THEN TRUE
    ELSE RangeHasDomain(Tail(order), host)

\* for _, cp := range a.pathPatterns: the first pattern matching the path
RECURSIVE FirstPattern(_, _)
FirstPattern(compiled, path) ==
    IF compiled = <<>> THEN TierUnknown
    ELSE IF path \in Head(compiled).matches THEN Head(compiled).tier
    ELSE FirstPattern(Tail(compiled), path)

\* strings.HasSuffix(host, ".gov"), ".edu", ".ac.uk"
HasAuthorityTLD(host) ==
    \/ Len(host) >= 2 /\ host[Len(host)] \in {"gov", "edu"}
    \/ Len(host) >= 3 /\ SubSeq(host, Len(host) - 1, Len(host)) = <<"ac", "uk">>

\* every order in which a map with these keys may be ranged over
RangeOrders(S) ==
    {o \in [1..Cardinality(S) -> S] : \A i, j \in DOMAIN o : i # j => o[i] # o[j]}

\* the path patterns are tried before the domain lists
Classify_PatternsFirst(config, rawURL, order) ==
    IF ~rawURL.valid THEN TierTertiary
    ELSE IF StripPort(ParsedHost(rawURL)) \in DOMAIN config.domainMap
    THEN parseTierString(config.domainMap[StripPort(ParsedHost(rawURL))])
    ELSE IF FirstPattern(CompilePatterns(config.patterns), rawURL.path)
              # TierUnknown
    THEN FirstPattern(CompilePatterns(config.patterns), rawURL.path)
    ELSE IF StripPort(ParsedHost(rawURL)) \in config.primary THEN TierPrimary
    ELSE IF RangeHasDomain(order.primary, StripPort(ParsedHost(rawURL))) THEN TierPrimary
    ELSE IF StripPort(ParsedHost(rawURL)) \in config.secondary THEN TierSecondary
    ELSE IF RangeHasDomain(order.secondary, StripPort(ParsedHost(rawURL)))
    THEN TierSecondary
    ELSE IF HasAuthorityTLD(StripPort(ParsedHost(rawURL))) THEN TierPrimary
    ELSE TierTertiary

\* AuthorityClassifier.Classify; order is the order in which the runtime
\* ranges over primaryMap and secondaryMap in this call
Classify(config, rawURL, order) ==
    IF ~rawURL.valid THEN TierTertiary
    ELSE IF StripPort(ParsedHost(rawURL)) \in DOMAIN config.domainMap
    THEN parseTierString(config.domainMap[StripPort(ParsedHost(rawURL))])
    ELSE IF StripPort(ParsedHost(rawURL)) \in config.primary THEN TierPrimary
    ELSE IF RangeHasDomain(order.primary, StripPort(ParsedHost(rawURL))) THEN TierPrimary
    ELSE IF StripPort(ParsedHost(rawURL)) \in config.secondary THEN TierSecondary
    ELSE IF RangeHasDomain(order.secondary, StripPort(ParsedHost(rawURL)))
    THEN TierSecondary
    ELSE IF FirstPattern(CompilePatterns(config.patterns), rawURL.path)
              # TierUnknown
    THEN FirstPattern(CompilePatterns(config.patterns), rawURL.path)
    ELSE IF HasAuthorityTLD(StripPort(ParsedHost(rawURL))) THEN TierPrimary
    ELSE TierTertiary

NoTier == [called |-> FALSE, tier |-> TierUnknown]

InitClassifierWith(config, rawURL) ==
    /\ cConfig = config
    /\ cURL = rawURL
    /\ cResult = NoTier

\* NewAuthorityClassifier(config) and a URL about to be classified
InitClassifier ==
    \E dm \in DomainMapsTried, pd \in PrimaryDomainsTried,
       sd \in SecondaryDomainsTried,
       pp \in SeqsUpTo(PatternsTried, MaxPatterns), u \in ClassifyURLs :
        InitClassifierWith([domainMap |-> dm, primary |-> pd, secondary |-> sd,
                            patterns |-> pp], u)

\* the configuration NewValidator is given: a.gov is a primary domain
ValidatorAuthority ==
    [domainMap |-> <<>>, primary |-> {<<"a", "gov">>}, secondary |-> {},
     patterns |-> <<>>]

\* no URL is classified
IdleClassifier ==
    InitClassifierWith(ValidatorAuthority,
                       [valid |-> FALSE, host |-> <<>>, port |-> FALSE,
                        path |-> ""])

\* one call of Classify, the runtime ranging over the maps in any order
ClassifyCall ==
    /\ ~cResult.called
    /\ \E po \in RangeOrders(cConfig.primary),
          so \in RangeOrders(cConfig.secondary) :
         cResult' = [called |-> TRUE,
                     tier |-> Classify(cConfig, cURL,
                                       [primary |-> po, secondary |-> so])]
    /\ UNCHANGED <<cConfig, cURL>>
    /\ UNCHANGED notClass

NextClassify == ClassifyCall

validateMaxRetries_Four == 3 + 1

\* const validateMaxRetries
validateMaxRetries == 3

\* NewValidator: the replacement for a non-positive maxWorkers
DefaultMaxWorkers == 20

EvidenceIds == 1..MaxEvidence

\* URLs an evidence item may carry
EvidenceURLs == {"a", "b"}

\* what httpClient.Do can give for one HEAD request: a response with a status
\* code, or an error (named by the lower-cased text the classifier looks for)
HTTPStatuses == {200, 404, 429, 503}

NetErrors == {"timeout", "connection reset", "no such host"}

\* with a cancelled context httpClient.Do fails with the context's error
DoOutcomes(cancelled) ==
    IF cancelled
    THEN {[kind |-> "error", code |-> 0, text |-> "context canceled"]}
    ELSE {[kind |-> "status", code |-> c, text |-> ""] : c \in HTTPStatuses}
           \cup {[kind |-> "error", code |-> 0, text |-> t] : t \in NetErrors}

\* strings.Contains on an error text kept as the sequence of its parts
Contains(msg, part) == \E k \in 1..Len(msg) : msg[k] = part

\* the zero model.ValidationResult
ZeroResult ==
    [url |-> "", accessible |-> FALSE, dead |-> FALSE, status |-> 0,
     authority |-> TierUnknown, error |-> <<>>]

\* the evidence URLs as url.Parse reads them
EvidenceURL(u) ==
    [valid |-> TRUE, host |-> IF u = "a" THEN <<"a", "gov">> ELSE <<"x", "com">>,
     port |-> FALSE, path |-> "/doc"]

\* v.authorityClassifier.Classify(evidence.URL)
ClassifyEvidence(u) ==
    Classify(ValidatorAuthority, EvidenceURL(u),
             [primary |-> <<<<"a", "gov">>>>, secondary |-> <<>>])

\* NewValidator: maxWorkers <= 0 becomes 20
NormalizeMaxWorkers(n) == IF n <= 0 THEN DefaultMaxWorkers ELSE n

CancelledResult_NoURL(u) ==
    [url |-> "", accessible |-> FALSE, dead |-> FALSE, status |-> 0,
     authority |-> TierUnknown, error |-> <<"context cancelled">>]

\* the result written on <-ctx.Done() in Validate
CancelledResult(u) ==
    [url |-> u, accessible |-> FALSE, dead |-> FALSE, status |-> 0,
     authority |-> TierUnknown, error |-> <<"context cancelled">>]

\* validateSingle: resp.StatusCode >= 200 && resp.StatusCode < 400
IsAccessibleStatus(code) == code >= 200 /\ code < 400

IsDeadStatus_Any4xx(code) == code >= 400 /\ code < 500

\* validateSingle: resp.StatusCode == 404 || resp.StatusCode == 410
IsDeadStatus(code) == code = 404 \/ code = 410

\* validateSingle for evidence URL u when httpClient.Do gives o
validateSingle(u, o) ==
    IF o.kind = "error"
    THEN [url |-> u, accessible |-> FALSE, dead |-> TRUE, status |-> 0,
          authority |-> ClassifyEvidence(u),
          error |-> <<"request failed:", o.text>>]
    ELSE [url |-> u,
          accessible |-> IsAccessibleStatus(o.code),
          dead |-> (~IsAccessibleStatus(o.code) /\ IsDeadStatus(o.code)),
          status |-> o.code,
          authority |-> ClassifyEvidence(u),
          error |-> <<>>]

isRetryableNetworkError(errMsg) ==
    \/ Contains(errMsg, "timeout")
    \/ Contains(errMsg, "connection refused")
    \/ Contains(errMsg, "connection reset")

isRetryableValidationResult(r) ==
    \/ (r.status >= 500 /\ r.status < 600)
    \/ r.status = 429
    \/ (r.error # <<>> /\ isRetryableNetworkError(r.error))

SemaphoreHasRoom_Unbounded(held, cap) == TRUE

\* `semaphore <- struct{}{}` can proceed: the channel buffer is not full
SemaphoreHasRoom(held, cap) == held < cap

\* probes in flight: goroutines that hold a semaphore slot
InFlight == {i \in EvidenceIds : gpc[i] \in {"probe", "backoff", "write"}}

\* a validator built by NewValidator(.., mw, ..) about to validate ev
InitValidatorWith(ev, mw) ==
    /\ evidence = ev
    /\ cfgMaxWorkers = mw
    /\ maxWorkers = NormalizeMaxWorkers(mw)
    /\ ctxDone = FALSE
    /\ valPC = "idle"
    /\ spawned = 0
    /\ gpc = [i \in EvidenceIds |-> "none"]
    /\ attempt = [i \in EvidenceIds |-> 0]
    /\ gresult = [i \in EvidenceIds |-> ZeroResult]
    /\ vresults = <<>>
    /\ semaphore = 0
    /\ heads = [i \in EvidenceIds |-> 0]
    /\ cancelledEarly = {}

\* the evidence lists tried; URL names are interchangeable, so the first item
\* is always "a"
EvidenceLists ==
    {ev \in SeqsUpTo(EvidenceURLs, MaxEvidence) : Len(ev) > 0 => ev[1] = "a"}

InitValidate ==
    \E ev \in EvidenceLists,
       mw \in 0..MaxValidationWorkers : InitValidatorWith(ev, mw)

\* no validation is running
IdleValidator == InitValidatorWith(<<>>, 1)

\* Validate: len(evidence) == 0 returns an empty list
ValidateEmpty ==
    /\ valPC = "idle"
    /\ Len(evidence) = 0
    /\ vresults' = <<>>
    /\ valPC' = "returned"
    /\ UNCHANGED <<evidence, cfgMaxWorkers, maxWorkers, ctxDone, spawned, gpc,
                   attempt, gresult, semaphore, heads,
                   cancelledEarly>>
    /\ UNCHANGED notVal

\* Validate: results := make([]ValidationResult, len(evidence)); semaphore
ValidateAlloc ==
    /\ valPC = "idle"
    /\ Len(evidence) > 0
    /\ vresults' = [i \in 1..Len(evidence) |-> ZeroResult]
    /\ semaphore' = 0
    /\ valPC' = "spawning"
    /\ UNCHANGED <<evidence, cfgMaxWorkers, maxWorkers, ctxDone, spawned, gpc,
                   attempt, gresult, heads,
                   cancelledEarly>>
    /\ UNCHANGED notVal

\* Validate: one iteration of the range loop: wg.Add(1); go func(i, ev)
ValidateSpawn ==
    /\ valPC = "spawning"
    /\ spawned < Len(evidence)
    /\ spawned' = spawned + 1
    /\ gpc' = [gpc EXCEPT ![spawned + 1] = "select"]
    /\ valPC' = IF spawned + 1 = Len(evidence) THEN "waiting" ELSE "spawning"
    /\ UNCHANGED <<evidence, cfgMaxWorkers, maxWorkers, ctxDone, attempt,
                   gresult, vresults, semaphore, heads,
                   cancelledEarly>>
    /\ UNCHANGED notVal

WaitGroupDone_NoWait(g, n) == TRUE

\* wg.Wait() can return: each of the n goroutines has run its deferred
\* wg.Done()
WaitGroupDone(g, n) == \A i \in 1..n : g[i] = "done"

\* Validate: wg.Wait() is over; return results, nil
ValidateReturn ==
    /\ valPC = "waiting"
    /\ WaitGroupDone(gpc, Len(evidence))
    /\ valPC' = "returned"
    /\ UNCHANGED <<evidence, cfgMaxWorkers, maxWorkers, ctxDone, spawned, gpc,
                   attempt, gresult, vresults, semaphore, heads, cancelledEarly>>
    /\ UNCHANGED notVal

\* goroutine: case <-ctx.Done() of the select; deferred wg.Done()
GCancelled(i) ==
    /\ gpc[i] = "select"
    /\ ctxDone
    /\ vresults' = [vresults EXCEPT ![i] = CancelledResult(evidence[i])]
    /\ gpc' = [gpc EXCEPT ![i] = "done"]
    /\ UNCHANGED <<evidence, cfgMaxWorkers, maxWorkers, ctxDone, valPC,
                   spawned, attempt, gresult, semaphore, heads, cancelledEarly>>
    /\ UNCHANGED notVal

\* goroutine: case semaphore <- struct{}{} of the select
GAcquire(i) ==
    /\ gpc[i] = "select"
    /\ SemaphoreHasRoom(semaphore, maxWorkers)
    /\ semaphore' = semaphore + 1
    /\ attempt' = [attempt EXCEPT ![i] = 0]
    /\ gpc' = [gpc EXCEPT ![i] = "probe"]
    /\ UNCHANGED <<evidence, cfgMaxWorkers, maxWorkers, ctxDone, valPC,
                   spawned, gresult, vresults, heads,
                   cancelledEarly>>
    /\ UNCHANGED notVal

\* validateSingleWithRetry: one loop iteration up to the sleep
GProbe(i) ==
    /\ gpc[i] = "probe"
    /\ attempt[i] < validateMaxRetries
    /\ \E o \in DoOutcomes(ctxDone) :
         LET r == validateSingle(evidence[i], o) IN
           /\ gresult' = [gresult EXCEPT ![i] = r]
           /\ IF ~isRetryableValidationResult(r)
              THEN /\ gpc' = [gpc EXCEPT ![i] = "write"]
                   /\ UNCHANGED attempt
              ELSE IF attempt[i] < validateMaxRetries - 1
              THEN /\ gpc' = [gpc EXCEPT ![i] = "backoff"]
                   /\ UNCHANGED attempt
              ELSE /\ gpc' = [gpc EXCEPT ![i] = "write"]
                   /\ attempt' = [attempt EXCEPT ![i] = @ + 1]
    /\ heads' = [heads EXCEPT ![i] = @ + 1]
    /\ UNCHANGED <<evidence, cfgMaxWorkers, maxWorkers, ctxDone, valPC,
                   spawned, vresults, semaphore, cancelledEarly>>
    /\ UNCHANGED notVal

\* validateSingleWithRetry: validateSleepFunc(backoff) returns; attempt++
GBackoffDone(i) ==
    /\ gpc[i] = "backoff"
    /\ attempt' = [attempt EXCEPT ![i] = @ + 1]
    /\ gpc' = [gpc EXCEPT ![i] = "probe"]
    /\ UNCHANGED <<evidence, cfgMaxWorkers, maxWorkers, ctxDone, valPC,
                   spawned, gresult, vresults, semaphore, heads, cancelledEarly>>
    /\ UNCHANGED notVal

\* goroutine: results[idx] = <returned result>; deferred <-semaphore; wg.Done()
GFinish(i) ==
    /\ gpc[i] = "write"
    /\ vresults' = [vresults EXCEPT ![i] = gresult[i]]
    /\ semaphore' = semaphore - 1
    /\ gpc' = [gpc EXCEPT ![i] = "done"]
    /\ UNCHANGED <<evidence, cfgMaxWorkers, maxWorkers, ctxDone, valPC,
                   spawned, attempt, gresult, heads,
                   cancelledEarly>>
    /\ UNCHANGED notVal

\* the caller's context is cancelled (or its deadline passes)
CancelCtx ==
    /\ ~ctxDone
    /\ valPC # "returned"
    /\ ctxDone' = TRUE
    /\ cancelledEarly' = {i \in 1..Len(evidence) : gpc[i] \in {"none", "select"}}
    /\ UNCHANGED <<evidence, cfgMaxWorkers, maxWorkers, valPC, spawned, gpc,
                   attempt, gresult, vresults, semaphore, heads>>
    /\ UNCHANGED notVal

NextValidate ==
    \/ ValidateEmpty
    \/ ValidateAlloc
    \/ ValidateSpawn
    \/ ValidateReturn
    \/ CancelCtx
    \/ \E i \in EvidenceIds : GCancelled(i)
    \/ \E i \in EvidenceIds : GAcquire(i)
    \/ \E i \in EvidenceIds : GProbe(i)
    \/ \E i \in EvidenceIds : GBackoffDone(i)
    \/ \E i \in EvidenceIds : GFinish(i)


(* ===================== internal/score/scorer.go ======================== *)

\* ages in days carried by a validation result; a Last-Modified stamp in the
\* future gives a negative age (validator.go: int(time.Since(t).Hours() / 24))
AgesTried == {-400, 500, 2000}

\* the validation results tried: authority, age (hasAge = FALSE is Age == nil)
\* and accessibility
ValidationsTried ==
    {[authority |-> t, hasAge |-> FALSE, age |-> 0, accessible |-> a] :
        t \in Tiers, a \in BOOLEAN}
    \cup {[authority |-> t, hasAge |-> TRUE, age |-> g, accessible |-> a] :
            t \in Tiers, g \in AgesTried, a \in BOOLEAN}

\* the claim texts tried, lower-cased, as the sequence of the parts the
\* conflict detector looks for
ClaimTextsTried ==
    {<<"the dish is popular">>,
     <<"laksa ", "origin", "ated in ", "malaysia">>,
     <<"the dish ", "origin", "ated in ", "indonesia">>}

\* detectConflict: the country lexicon
CountryLexicon ==
    {"malaysia", "indonesia", "england", "wales", "uk", "britain", "china",
     "india", "thailand"}

\* Go's int(x) of a quotient a/b with b > 0: truncation toward zero
TruncDiv(a, b) == IF a >= 0 THEN a \div b ELSE -((-a) \div b)

MinInt(a, b) == IF a <= b THEN a ELSE b

\* the ages of the validation results that carry one, in order
RECURSIVE AgesOf(_)
AgesOf(v) ==
    IF v = <<>> THEN <<>>
    ELSE IF Head(v).hasAge THEN <<Head(v).age>> \o AgesOf(Tail(v))
    ELSE AgesOf(Tail(v))

\* insert x into the ascending sequence s
RECURSIVE InsertSorted(_, _)
InsertSorted(x, s) ==
    IF s = <<>> THEN <<x>>
    ELSE IF x <= Head(s) THEN <<x>> \o s
    ELSE <<Head(s)>> \o InsertSorted(x, Tail(s))

\* sort.Ints
RECURSIVE SortInts(_)
SortInts(s) == IF s = <<>> THEN <<>> ELSE InsertSorted(Head(s), SortInts(Tail(s)))

\* ages[len(ages)/2] of the sorted ages (Go indexes from 0)
MedianAge(ages) == SortInts(ages)[(Len(ages) \div 2) + 1]

\* number of validation results of authority tier t
CountTier(v, t) == Cardinality({k \in 1..Len(v) : v[k].authority = t})

\* calculateCoverage: int(math.Min(ratio*40, 40)), 0 without claims
calculateCoverage(claimCount, evidenceCount) ==
    IF claimCount = 0 THEN 0
    ELSE MinInt(TruncDiv(evidenceCount * 40, claimCount), 40)

\* calculateAuthority: int((weightedSum / maxPossible) * 30), 0 without data
calculateAuthority(v) ==
    IF Len(v) = 0 THEN 0
    ELSE LET primaryCount == CountTier(v, TierPrimary)
             secondaryCount == CountTier(v, TierSecondary)
             tertiaryCount == CountTier(v, TierTertiary)
             weightedSum == primaryCount * 3 + secondaryCount * 2 + tertiaryCount * 1
             maxPossible == Len(v) * 3
         IN TruncDiv(weightedSum * 30, maxPossible)

\* calculateFreshness: 20 - int(medianAgeYears*5), floored at 0; 10 without
\* freshness data
calculateFreshness(v) ==
    LET ages == AgesOf(v) IN
    IF Len(ages) = 0 THEN 10
    ELSE LET score == 20 - TruncDiv(MedianAge(ages) * 5, 365)
         IN IF score < 0 THEN 0 ELSE score

\* calculateAccessibility: int(ratio * 10), 0 without data
calculateAccessibility(v) ==
    IF Len(v) = 0 THEN 0
    ELSE LET accessibleCount == Cardinality({k \in 1..Len(v) : v[k].accessible})
         IN TruncDiv(accessibleCount * 10, Len(v))

\* model.Signal: its Type and the Data map (a float is kept as the fraction
\* <<numerator, denominator>>); Severity and Description are left out
Signal(type, data) == [type |-> type, data |-> data]

\* calculateCoverage: the Data map of the evidence_coverage signal
coverageData(claimCount, evidenceCount) ==
    IF claimCount = 0
    THEN [claims |-> 0, evidence |-> evidenceCount]
    ELSE [claims |-> claimCount, evidence |-> evidenceCount,
          ratio |-> <<evidenceCount, claimCount>>,
          score |-> calculateCoverage(claimCount, evidenceCount),
          formula |-> "min(evidence_count / claim_count * 40, 40)"]

\* calculateAuthority: the Data map of the authority_distribution signal
authorityData(v) ==
    IF Len(v) = 0
    THEN [validated |-> 0]
    ELSE [primary |-> CountTier(v, TierPrimary),
          secondary |-> CountTier(v, TierSecondary),
          tertiary |-> CountTier(v, TierTertiary),
          total |-> Len(v),
          score |-> calculateAuthority(v),
          formula |-> "(primary*3 + secondary*2 + tertiary*1) / (total*3) * 30"]

\* calculateFreshness: the Data map of the freshness signal
freshnessData(v) ==
    LET ages == AgesOf(v) IN
    IF Len(ages) = 0
    THEN [samples |-> 0, score |-> 10]
    ELSE [median_age_days |-> MedianAge(ages),
          median_age_years |-> <<MedianAge(ages), 365>>,
          samples |-> Len(ages),
          total_sources |-> Len(v),
          freshness_coverage |-> <<Len(ages) * 100, Len(v)>>,
          score |-> calculateFreshness(v),
          formula |-> "20 - min(median_age_years * 5, 20)"]

\* calculateAccessibility: the Data map of the accessibility signal
accessibilityData(v) ==
    IF Len(v) = 0
    THEN [validated |-> 0]
    ELSE LET accessibleCount == Cardinality({k \in 1..Len(v) : v[k].accessible})
         IN [accessible |-> accessibleCount,
             total |-> Len(v),
             ratio |-> <<accessibleCount, Len(v)>>,
             score |-> calculateAccessibility(v),
             formula |-> "(accessible_count / total) * 10"]

\* detectConflict: the claims whose lower-cased text contains "origin"
originClaims(cl) == {k \in 1..Len(cl) : Contains(cl[k], "origin")}

\* detectConflict: the lexicon countries found in the origin claims
countries(cl) ==
    {c \in CountryLexicon : \E k \in originClaims(cl) : Contains(cl[k], c)}

detectConflict_OneClaim(cl) == Cardinality(countries(cl)) >= 2

\* detectConflict: two or more origin claims naming two or more countries
detectConflict(cl) ==
    Cardinality(countries(cl)) >= 2 /\ Cardinality(originClaims(cl)) >= 2

\* detectConflict: the signal returned with a detected conflict
conflictSignal(cl) ==
    Signal("conflict", [origin_claims |-> Cardinality(originClaims(cl)),
                        entities |-> Cardinality(countries(cl)),
                        penalty |-> 10])

\* detectFreshnessAnomaly: at least 20 ages, more than 50 of them, median
\* below one year
detectFreshnessAnomaly(v) ==
    LET ages == AgesOf(v) IN
    IF Len(ages) < 20 THEN FALSE
    ELSE MedianAge(ages) < 365 /\ Len(ages) > 50

\* detectFreshnessAnomaly: the signal returned with a detected anomaly
freshnessAnomalySignal(v, totalEvidence) ==
    Signal("freshness_anomaly",
           [median_age_years |-> <<MedianAge(AgesOf(v)), 365>>,
            sources_with_age |-> Len(AgesOf(v)),
            total_evidence |-> totalEvidence,
            explanation |-> "suspiciously recent sources"])

determineConfidence_EvidenceFirst(total, evidenceCount, conflict) ==
    IF evidenceCount < 3 THEN "low"
    ELSE IF conflict THEN "low-medium"
    ELSE IF total >= 80 THEN "high"
    ELSE IF total >= 60 THEN "medium"
    ELSE "low"

\* determineConfidence
determineConfidence(total, evidenceCount, conflict) ==
    IF conflict THEN "low-medium"
    ELSE IF evidenceCount < 3 THEN "low"
    ELSE IF total >= 80 THEN "high"
    ELSE IF total >= 60 THEN "medium"
    ELSE "low"

\* Calculate: the conflict penalty, floored at 0
ConflictPenalty(total, conflict) ==
    IF conflict
    THEN (IF total - 10 < 0 THEN 0 ELSE total - 10)
    ELSE total

\* Scorer.Calculate
Calculate(cl, evidenceCount, v) ==
    LET conflictDetected == detectConflict(cl)
        totalScore == ConflictPenalty(
                          calculateCoverage(Len(cl), evidenceCount)
                            + calculateAuthority(v)
                            + calculateFreshness(v)
                            + calculateAccessibility(v),
                          conflictDetected)
    IN [index |-> totalScore,
        confidence |-> determineConfidence(totalScore, evidenceCount,
                                           conflictDetected),
        conflict |-> conflictDetected,
        signals |-> <<Signal("evidence_coverage",
                             coverageData(Len(cl), evidenceCount)),
                      Signal("authority_distribution", authorityData(v)),
                      Signal("freshness", freshnessData(v)),
                      Signal("accessibility", accessibilityData(v))>>
                    \o (IF conflictDetected THEN <<conflictSignal(cl)>>
                        ELSE <<>>)
                    \o (IF detectFreshnessAnomaly(v)
                        THEN <<freshnessAnomalySignal(v, evidenceCount)>>
                        ELSE <<>>)]

(* ---- Pipeline.ScanURL, steps 5 and 6: the signals appended to a score --- *)

\* fetchResult.Meta.TLS: nil (present = FALSE) or the TLSInfo of the exchange
NoTLS == [present |-> FALSE, enabled |-> FALSE, expired |-> FALSE,
          selfSigned |-> FALSE, mismatch |-> FALSE]

PlainHTTP == [present |-> TRUE, enabled |-> FALSE, expired |-> FALSE,
              selfSigned |-> FALSE, mismatch |-> FALSE]

ValidTLS == [present |-> TRUE, enabled |-> TRUE, expired |-> FALSE,
             selfSigned |-> FALSE, mismatch |-> FALSE]

\* generateTLSSignals
generateTLSSignals(tls) ==
    IF ~tls.present THEN <<>>
    ELSE IF ~tls.enabled
    THEN <<Signal("no_tls", [url |-> "final url"])>>
    ELSE (IF tls.expired
          THEN <<Signal("expired_certificate", [subject |-> "subject"])>>
          ELSE <<>>)
         \o (IF tls.selfSigned
             THEN <<Signal("self_signed_certificate", [issuer |-> "issuer"])>>
             ELSE <<>>)
         \o (IF tls.mismatch
             THEN <<Signal("certificate_mismatch", [url |-> "final url"])>>
             ELSE <<>>)

\* an HTTPS exchange whose certificate has the given defects
BadTLS(e, s, m) == [present |-> TRUE, enabled |-> TRUE, expired |-> e,
                    selfSigned |-> s, mismatch |-> m]

\* what WikipediaAdapter.DetectWikipediaConflicts returns: edit-war and
\* historical-entity signals, or none
WikiSignalLists ==
    {<<>>,
     <<Signal("edit_war", [reverts |-> 3])>>,
     <<Signal("edit_war", [reverts |-> 3]),
       Signal("historical_entity", [entity |-> "USSR"])>>}

\* the page a score belongs to: the TLS state of the fetch, whether
\* FinalURL contains "wikipedia.org", and what the Wikipedia adapter finds
NoPage == [tls |-> NoTLS, wikipedia |-> FALSE, wiki |-> <<>>]

AppendPageSignals_WikiFirst(signals, page) ==
    signals \o (IF page.wikipedia THEN page.wiki ELSE <<>>)
            \o generateTLSSignals(page.tls)

\* ScanURL: scoreResult.Signals = append(scoreResult.Signals, tlsSignals...)
\* and, for a Wikipedia URL, append(scoreResult.Signals, conflictSignals...)
AppendPageSignals(signals, page) ==
    signals \o generateTLSSignals(page.tls)
            \o (IF page.wikipedia THEN page.wiki ELSE <<>>)

\* no score computed yet
NoScore == [index |-> 0, confidence |-> "", conflict |-> FALSE, signals |-> <<>>]

InitScorerWith(cl, ec, v) ==
    /\ sClaims = cl
    /\ sEvidenceCount = ec
    /\ sValidation = v
    /\ sScore = NoScore
    /\ sPage = NoPage
    /\ scorePC = "input"

InitScorer ==
    \E cl \in SeqsUpTo(ClaimTextsTried, MaxClaims),
       ec \in 0..MaxScoreEvidence,
       v \in SeqsUpTo(ValidationsTried, MaxValidations) :
          InitScorerWith(cl, ec, v)

\* no scoring is running
IdleScorer == InitScorerWith(<<>>, 0, <<>>)

\* one call of Scorer.Calculate
ScoreCalculate ==
    /\ scorePC = "input"
    /\ sScore' = Calculate(sClaims, sEvidenceCount, sValidation)
    /\ scorePC' = "done"
    /\ UNCHANGED <<sClaims, sEvidenceCount, sValidation, sPage>>
    /\ UNCHANGED notScore

NextScore == ScoreCalculate

\* the texts of the claims of a page: no origin claim, origin claims naming
\* one, two or no country, and a country named outside an origin claim
SignalTexts ==
    ClaimTextsTried
      \cup {<<"its ", "origin", " is disputed between ", "malaysia", " and ",
              "indonesia">>,
            <<"its ", "origin", " is unknown">>,
            <<"it is popular in ", "china">>}

\* the kinds of validation result of a page
SignalValidations ==
    {[authority |-> TierPrimary, hasAge |-> TRUE, age |-> 100,
      accessible |-> TRUE],
     [authority |-> TierSecondary, hasAge |-> TRUE, age |-> 2000,
      accessible |-> TRUE],
     [authority |-> TierTertiary, hasAge |-> FALSE, age |-> 0,
      accessible |-> FALSE],
     [authority |-> TierUnknown, hasAge |-> TRUE, age |-> 2000,
      accessible |-> FALSE]}

\* detectFreshnessAnomaly: `len(ages) > 50`
AnomalyThreshold == 50

\* n validation results of age g followed by m without Last-Modified
BulkList(n, g, m) ==
    [k \in 1..(n + m) |->
        IF k <= n
        THEN [authority |-> TierSecondary, hasAge |-> TRUE, age |-> g,
              accessible |-> TRUE]
        ELSE [authority |-> TierTertiary, hasAge |-> FALSE, age |-> 0,
              accessible |-> TRUE]]

\* long validation lists around the thresholds of detectFreshnessAnomaly
BulkLists ==
    {BulkList(n, g, m) :
        n \in {19, 20, AnomalyThreshold - 1, AnomalyThreshold,
               AnomalyThreshold + 1},
        g \in {100, 364, 365}, m \in {0, 1}}

\* the pages tried: no TLS data, plain HTTP, every combination of
\* certificate defects, off and on Wikipedia
PagesTried ==
    {[tls |-> t, wikipedia |-> FALSE, wiki |-> <<>>] :
        t \in {NoTLS, PlainHTTP}}
      \cup {[tls |-> BadTLS(e, s, m), wikipedia |-> w # <<>>, wiki |-> w] :
              e \in BOOLEAN, s \in BOOLEAN, m \in BOOLEAN,
              w \in WikiSignalLists}
      \cup {[tls |-> PlainHTTP, wikipedia |-> TRUE, wiki |-> w] :
              w \in WikiSignalLists}

\* the calls of Calculate tried for a scanned page: short validation lists
\* with every claim list, every page with and without a conflict and an
\* anomaly, and the long lists
SignalInputs ==
    {[cl |-> c, ec |-> e, v |-> v, page |-> NoPage] :
        c \in SeqsUpTo(SignalTexts, MaxClaims),
        e \in 0..MaxScoreEvidence,
        v \in SeqsUpTo(SignalValidations, MaxValidations)}
      \cup {[cl |-> c, ec |-> Len(v), v |-> v, page |-> pg] :
              c \in {<<>>, <<(<<"laksa ", "origin", "ated in ", "malaysia">>),
                           (<<"the dish ", "origin", "ated in ", "indonesia">>)>>},
              v \in {<<>>, BulkList(AnomalyThreshold + 1, 100, 0)},
              pg \in PagesTried}
      \cup {[cl |-> c, ec |-> Len(v), v |-> v, page |-> NoPage] :
              c \in {<<>>, <<(<<"laksa ", "origin", "ated in ", "malaysia">>),
                           (<<"the dish ", "origin", "ated in ", "indonesia">>)>>},
              v \in BulkLists}

InitSignals ==
    \E in \in SignalInputs :
        /\ sClaims = in.cl
        /\ sEvidenceCount = in.ec
        /\ sValidation = in.v
        /\ sScore = NoScore
        /\ sPage = in.page
        /\ scorePC = "input"

\* ScanURL after step 5: the TLS and the Wikipedia signals are appended
AppendSignals ==
    /\ scorePC = "done"
    /\ sScore' = [sScore EXCEPT !.signals = AppendPageSignals(@, sPage)]
    /\ scorePC' = "appended"
    /\ UNCHANGED <<sClaims, sEvidenceCount, sValidation, sPage>>
    /\ UNCHANGED notScore

\* steps 5 and 6 of ScanURL
NextSignals == ScoreCalculate \/ AppendSignals

(* ===================== internal/pipeline: fetcher ====================== *)

\* attempts made by FetchWithRetry
fetchMaxRetries == 3

\* the body sizes a server answers with, up to one byte over the cap
BodySizes == 0..(MaxBodyBytes + 1)

\* what the server or the network gives for one GET: a response with a status
\* code whose body (of some size) can be read, a response whose body read
\* fails, or an error of httpClient.Do
FetchOutcomes ==
    {[kind |-> "status", code |-> c, text |-> "", body |-> 1] :
        c \in HTTPStatuses}
      \cup {[kind |-> "status", code |-> 200, text |-> "", body |-> b] :
              b \in BodySizes}
      \cup {[kind |-> "body", code |-> 200, text |-> "unexpected EOF",
              body |-> 1]}
      \cup {[kind |-> "error", code |-> 0, text |-> t, body |-> 0] :
              t \in {"timeout", "connection reset", "no such host"}}

\* io.ReadAll(io.LimitReader(resp.Body, f.maxBytes)): the limited reader
\* reports EOF after maxBytes bytes, so ReadAll returns that prefix and no error
ReadLimited(body, maxBytes) == MinInt(body, maxBytes)

\* no error
NoErr == [prefix |-> "", status |-> 0, cause |-> ""]

Fetch_OnlyServerErrors(o, maxBytes) ==
    IF o.kind = "error"
    THEN [ok |-> FALSE, status |-> 0, html |-> 0,
          err |-> [prefix |-> "fetch:", status |-> 0, cause |-> o.text]]
    ELSE IF o.code >= 500
    THEN [ok |-> FALSE, status |-> o.code, html |-> 0,
          err |-> [prefix |-> "unexpected status:", status |-> o.code, cause |-> ""]]
    ELSE IF o.kind = "body"
    THEN [ok |-> FALSE, status |-> o.code, html |-> 0,
          err |-> [prefix |-> "read body:", status |-> 0, cause |-> o.text]]
    ELSE [ok |-> TRUE, status |-> o.code,
          html |-> ReadLimited(o.body, maxBytes), err |-> NoErr]

\* Fetcher.Fetch when the GET gives o: "fetch: ..." for a failed Do,
\* "unexpected status: ..." outside [200, 300), "read body: ..." for a failed
\* read, the result (with the bytes read as its HTML) otherwise
Fetch(o, maxBytes) ==
    IF o.kind = "error"
    THEN [ok |-> FALSE, status |-> 0, html |-> 0,
          err |-> [prefix |-> "fetch:", status |-> 0, cause |-> o.text]]
    ELSE IF o.code < 200 \/ o.code >= 300
    THEN [ok |-> FALSE, status |-> o.code, html |-> 0,
          err |-> [prefix |-> "unexpected status:", status |-> o.code, cause |-> ""]]
    ELSE IF o.kind = "body"
    THEN [ok |-> FALSE, status |-> o.code, html |-> 0,
          err |-> [prefix |-> "read body:", status |-> 0, cause |-> o.text]]
    ELSE [ok |-> TRUE, status |-> o.code,
          html |-> ReadLimited(o.body, maxBytes), err |-> NoErr]

\* isRetryableFetchError: a 5xx, a 429, or a transient network error
isRetryableFetchError(e) ==
    \/ (e.prefix = "unexpected status:" /\ e.status >= 500 /\ e.status < 600)
    \/ (e.prefix = "unexpected status:" /\ e.status = 429)
    \/ (e.prefix = "fetch:"
          /\ e.cause \in {"timeout", "connection refused", "connection reset"})

\* nothing returned yet
NoFetchResult == [ok |-> FALSE, status |-> 0, html |-> 0, err |-> NoErr]

InitFetcher ==
    /\ fetchPC = "attempt"
    /\ fetchAttempt = 0
    /\ fetchLog = <<>>
    /\ fetchLast = NoFetchResult
    /\ fetchReturn = NoFetchResult

\* FetchWithRetry: one attempt; returns on success or on an error that is
\* not retryable, or after the last attempt
FetchAttempt ==
    /\ fetchPC = "attempt"
    /\ fetchAttempt < fetchMaxRetries
    /\ \E o \in FetchOutcomes :
         LET r == Fetch(o, MaxBodyBytes) IN
           /\ fetchLog' = Append(fetchLog, o)
           /\ fetchLast' = r
           /\ IF r.ok \/ ~isRetryableFetchError(r.err)
              THEN /\ fetchReturn' = r
                   /\ fetchPC' = "done"
                   /\ UNCHANGED fetchAttempt
              ELSE IF fetchAttempt < fetchMaxRetries - 1
              THEN /\ fetchPC' = "backoff"
                   /\ UNCHANGED <<fetchReturn, fetchAttempt>>
              ELSE /\ fetchReturn' = r
                   /\ fetchPC' = "done"
                   /\ fetchAttempt' = fetchAttempt + 1
    /\ UNCHANGED notFetch

\* FetchWithRetry: fetchSleepFunc(backoff) returns; next attempt
FetchBackoffDone ==
    /\ fetchPC = "backoff"
    /\ fetchAttempt' = fetchAttempt + 1
    /\ fetchPC' = "attempt"
    /\ UNCHANGED <<fetchLog, fetchLast, fetchReturn>>
    /\ UNCHANGED notFetch

NextFetch == FetchAttempt \/ FetchBackoffDone

(* ============ net/http redirects: one HEAD probe, one page GET ========= *)

\* the CheckRedirect of NewFetcher and of NewValidator: via holds the
\* requests made so far, the oldest first
CheckRedirect(via) == IF via >= 3 THEN "stopped after 3 redirects" ELSE ""

\* http.Client.Do against a server that answers `hops` redirects before
\* `final`: CheckRedirect is asked before each redirect is followed, with
\* every request sent so far in via; its error ends the call
RECURSIVE FollowRedirects(_, _, _)
FollowRedirects(hops, via, final) ==
    IF hops = 0 THEN final
    ELSE IF CheckRedirect(via) # ""
    THEN [kind |-> "error", code |-> 0, text |-> CheckRedirect(via), body |-> 0]
    ELSE FollowRedirects(hops - 1, via + 1, final)

\* httpClient.Do(req): the first request is in via at the first redirect
ClientDo(hops, final) == FollowRedirects(hops, 1, final)

\* the final status codes tried
ProbeStatuses == {200, 204, 304, 399, 400, 404, 410, 429, 503}

\* what ends a redirect chain: a response or a network error
ProbeFinals ==
    {[kind |-> "status", code |-> c, text |-> "", body |-> 1] :
        c \in ProbeStatuses}
      \cup {[kind |-> "error", code |-> 0, text |-> t, body |-> 0] :
              t \in NetErrors}

NoHead == [state |-> "none", result |-> ZeroResult]

NoFetched == [state |-> "none", result |-> NoFetchResult]

InitProbeWith(u, h, f) ==
    /\ probe = [url |-> u, hops |-> h, final |-> f]
    /\ headLast = NoHead
    /\ getLast = NoFetched

InitProbe ==
    \E u \in EvidenceURLs, h \in 0..MaxHops, f \in ProbeFinals :
        InitProbeWith(u, h, f)

\* nothing is probed
IdleProbe ==
    InitProbeWith("a", 0, [kind |-> "status", code |-> 200, text |-> "",
                           body |-> 1])

\* the goroutine of Validate took the semaphore: validateSingle
ProbeHead ==
    /\ headLast.state = "none"
    /\ headLast' = [state |-> "probed",
                    result |-> validateSingle(probe.url,
                                              ClientDo(probe.hops, probe.final))]
    /\ UNCHANGED <<probe, getLast>>
    /\ UNCHANGED notProbe

\* the goroutine of Validate took <-ctx.Done()
ProbeCancelled ==
    /\ headLast.state = "none"
    /\ headLast' = [state |-> "cancelled", result |-> CancelledResult(probe.url)]
    /\ UNCHANGED <<probe, getLast>>
    /\ UNCHANGED notProbe

\* Fetcher.Fetch of the same URL
ProbeGet ==
    /\ getLast.state = "none"
    /\ getLast' = [state |-> "fetched",
                   result |-> Fetch(ClientDo(probe.hops, probe.final),
                                    MaxBodyBytes)]
    /\ UNCHANGED <<probe, headLast>>
    /\ UNCHANGED notProbe

NextProbe == ProbeHead \/ ProbeCancelled \/ ProbeGet

(* ========================= internal/cache ============================== *)

\* the URLs whose reports are cached
CacheURLs == {"u1", "u2"}

\* CacheKey: "entropia:v1:" followed by the hex SHA-256 digest of the URL
\* (the digest is carried as the URL it is the digest of)
CacheKey(u) == <<"entropia:v1:", u>>

CacheKeys == {CacheKey(u) : u \in CacheURLs}

\* the byte strings handed to Set
CacheValues == {<<"r1">>, <<"r2">>}

\* the ttl arguments handed to Set; 0 asks for the tier's default
TTLs == 0..MaxTTL

\* how the write of the entry file ends: written, failed before the file
\* was touched (MkdirAll / open), or failed after the file was truncated
DiskWrites == {"ok", "unchanged", "truncated"}

\* the calls of Set tried: every value, ttl and way the write ends under the
\* key of the first URL; one more URL so that Delete and Clear differ
SetsTried ==
    {[key |-> CacheKey("u1"), value |-> v, ttl |-> d, write |-> w] :
        v \in CacheValues, d \in TTLs, w \in DiskWrites}
    \cup {[key |-> CacheKey("u2"), value |-> <<"r1">>, ttl |-> 0, write |-> "ok"]}

\* no item under the key. stamp is the expires_at of the entry the value was
\* stored with, promoted tells that LayeredCache.Get put the item there
NoEntry == [present |-> FALSE, data |-> <<>>, exp |-> 0, stamp |-> 0,
            promoted |-> FALSE]

\* no decodable entry file under the key
NoFile == [present |-> FALSE, data |-> <<>>, exp |-> 0]

\* nothing stored by a successful Set
NoStored == [present |-> FALSE, data |-> <<>>, stamp |-> 0]

\* no Get has just returned
NoGet == [called |-> FALSE, key |-> CacheKey("u1"), hit |-> FALSE,
          data |-> <<>>, tier |-> "none", at |-> 0, stamp |-> 0,
          promoted |-> FALSE, want |-> NoStored]

\* json.Marshal of cacheEntry.Data ([]byte): the base64 text of the bytes
EncodeBytes(b) == <<"base64">> \o b

\* json.Unmarshal into cacheEntry.Data, returned as is
DecodeBytes_Raw(e) == e

\* json.Unmarshal into cacheEntry.Data: the bytes of the base64 text
DecodeBytes(e) == Tail(e)

\* MemoryCache.Set -> go-cache Set(k, x, d): d = 0 is DefaultExpiration,
\* a positive duration gives an expiration, anything else none (0)
MemorySet(m, k, v, d, t, dflt, st, pr) ==
    LET dd == IF d = 0 THEN dflt ELSE d
        e == IF dd > 0 THEN t + dd ELSE 0
    IN [m EXCEPT ![k] = [present |-> TRUE, data |-> v, exp |-> e,
                         stamp |-> st, promoted |-> pr]]

\* MemoryCache.Get -> go-cache Get: found unless absent or expired
MemoryHit(m, k, t) == m[k].present /\ ~(m[k].exp > 0 /\ t > m[k].exp)

\* DiskCache.Get: hit unless the file is missing, undecodable or expired
DiskHit(dk, k, t) == dk[k].present /\ ~(t > dk[k].exp)

\* DiskCache.Get: an expired entry file is removed
DiskAfterGet(dk, k, t) ==
    IF dk[k].present /\ t > dk[k].exp THEN [dk EXCEPT ![k] = NoFile] ELSE dk

\* DiskCache.Set: ExpiresAt of the entry written
DiskExpiresAt(ttl, t, dflt) == t + (IF ttl = 0 THEN dflt ELSE ttl)

\* DiskCache.Set, by how the write ends
DiskSet(dk, k, v, ttl, t, dflt, w) ==
    IF w = "ok"
    THEN [dk EXCEPT ![k] = [present |-> TRUE, data |-> EncodeBytes(v),
                            exp |-> DiskExpiresAt(ttl, t, dflt)]]
    ELSE IF w = "truncated" THEN [dk EXCEPT ![k] = NoFile]
    ELSE dk

\* LayeredCache.Get without the promotion of a disk hit
Promote_Skipped(m, k, val, t, dflt, st) == m

\* LayeredCache.Get: c.memory.Set(key, val, 0) after a disk hit
Promote(m, k, val, t, dflt, st) == MemorySet(m, k, val, 0, t, dflt, st, TRUE)

\* LayeredCache.Get: what it returns and what it leaves in the two tiers
LayeredGet(m, dk, k, t, dflt) ==
    IF MemoryHit(m, k, t)
    THEN [hit |-> TRUE, data |-> m[k].data, tier |-> "memory",
          stamp |-> m[k].stamp, promoted |-> m[k].promoted,
          memory |-> m, disk |-> dk]
    ELSE IF DiskHit(dk, k, t)
    THEN LET val == DecodeBytes(dk[k].data) IN
         [hit |-> TRUE, data |-> val, tier |-> "disk",
          stamp |-> dk[k].exp, promoted |-> FALSE,
          memory |-> Promote(m, k, val, t, dflt, dk[k].exp), disk |-> dk]
    ELSE [hit |-> FALSE, data |-> <<>>, tier |-> "none",
          stamp |-> 0, promoted |-> FALSE,
          memory |-> m, disk |-> DiskAfterGet(dk, k, t)]

\* LayeredCache.Set: memory first, then disk; the disk error is returned
LayeredSet(m, dk, k, v, ttl, t, mdflt, ddflt, w) ==
    [err |-> (w # "ok"),
     memory |-> MemorySet(m, k, v, ttl, t, mdflt,
                          DiskExpiresAt(ttl, t, ddflt), FALSE),
     disk |-> DiskSet(dk, k, v, ttl, t, ddflt, w)]

\* MemoryCache.Delete: go-cache's Delete, which has nothing to report
MemoryDelete(m, k) == [memory |-> [m EXCEPT ![k] = NoEntry], err |-> FALSE]

\* DiskCache.Delete: os.Remove of the entry file, whose error it returns; a
\* file that is not there is one
DiskDelete(dk, k) ==
    [disk |-> [dk EXCEPT ![k] = NoFile], err |-> ~dk[k].present]

\* Delete returns what the disk tier reports
LayeredDelete_DiskError(m, dk, k) ==
    [memory |-> MemoryDelete(m, k).memory, disk |-> DiskDelete(dk, k).disk,
     err |-> DiskDelete(dk, k).err]

\* LayeredCache.Delete: both tiers are told to delete and what they return
\* is dropped
LayeredDelete(m, dk, k) ==
    [memory |-> MemoryDelete(m, k).memory, disk |-> DiskDelete(dk, k).disk,
     err |-> FALSE]

EmptyMemory == [k \in CacheKeys |-> NoEntry]

EmptyDisk == [k \in CacheKeys |-> NoFile]

\* LayeredCache.Clear: Flush of the memory tier and os.RemoveAll of the
\* directory, which reports nothing for a directory that is not there; what
\* they return is dropped
LayeredClear(m, dk) == [memory |-> EmptyMemory, disk |-> EmptyDisk, err |-> FALSE]

\* no Delete or Clear has just returned. absent: before the call neither
\* tier held the key (Delete) or anything at all (Clear); changed: the call
\* changed what the tiers hold
NoDelete ==
    [called |-> FALSE, op |-> "", key |-> CacheKey("u1"), err |-> FALSE,
     absent |-> FALSE, changed |-> FALSE]

\* NewLayeredCache(ttl, dir, ttl) as NewPipeline calls it, on an empty
\* cache directory
InitCacheWith(ttl) ==
    /\ now = 0
    /\ memoryTTL = ttl
    /\ diskTTL = ttl
    /\ memory = EmptyMemory
    /\ disk = EmptyDisk
    /\ lastGet = NoGet
    /\ lastDelete = NoDelete
    /\ stored = [k \in CacheKeys |-> NoStored]

InitCache == \E ttl \in 1..MaxTTL : InitCacheWith(ttl)

\* the cache is not used
IdleCache == InitCacheWith(1)

\* time passes
CacheTick ==
    /\ now < MaxTime
    /\ now' = now + 1
    /\ lastGet' = NoGet /\ lastDelete' = NoDelete
    /\ UNCHANGED <<memoryTTL, diskTTL, memory, disk, stored>>
    /\ UNCHANGED notCache

\* LayeredCache.Set(key, value, ttl)
CacheSet(k, v, ttl, w) ==
    LET r == LayeredSet(memory, disk, k, v, ttl, now, memoryTTL, diskTTL, w) IN
    /\ memory' = r.memory
    /\ disk' = r.disk
    /\ stored' = [stored EXCEPT ![k] =
                    IF r.err THEN NoStored
                    ELSE [present |-> TRUE, data |-> v,
                          stamp |-> DiskExpiresAt(ttl, now, diskTTL)]]
    /\ lastGet' = NoGet /\ lastDelete' = NoDelete
    /\ UNCHANGED <<now, memoryTTL, diskTTL>>
    /\ UNCHANGED notCache

\* LayeredCache.Get(key)
CacheGet(k) ==
    LET r == LayeredGet(memory, disk, k, now, memoryTTL) IN
    /\ memory' = r.memory
    /\ disk' = r.disk
    /\ lastGet' = [called |-> TRUE, key |-> k, hit |-> r.hit, data |-> r.data,
                   tier |-> r.tier, at |-> now, stamp |-> r.stamp,
                   promoted |-> r.promoted, want |-> stored[k]]
    /\ lastDelete' = NoDelete
    /\ UNCHANGED <<now, memoryTTL, diskTTL, stored>>
    /\ UNCHANGED notCache

\* LayeredCache.Delete(key)
CacheDelete(k) ==
    \E r \in {LayeredDelete(memory, disk, k)} :
       /\ memory' = r.memory
       /\ disk' = r.disk
       /\ stored' = [stored EXCEPT ![k] = NoStored]
       /\ lastGet' = NoGet
       /\ lastDelete' = [called |-> TRUE, op |-> "delete", key |-> k,
                         err |-> r.err,
                         absent |-> ~memory[k].present /\ ~disk[k].present,
                         changed |-> r.memory # memory \/ r.disk # disk]
       /\ UNCHANGED <<now, memoryTTL, diskTTL>>
       /\ UNCHANGED notCache

\* LayeredCache.Clear()
CacheClear ==
    \E r \in {LayeredClear(memory, disk)} :
       /\ memory' = r.memory
       /\ disk' = r.disk
       /\ stored' = [k \in CacheKeys |-> NoStored]
       /\ lastGet' = NoGet
       /\ lastDelete' = [called |-> TRUE, op |-> "clear", key |-> CacheKey("u1"),
                         err |-> r.err,
                         absent |-> memory = EmptyMemory /\ disk = EmptyDisk,
                         changed |-> r.memory # memory \/ r.disk # disk]
       /\ UNCHANGED <<now, memoryTTL, diskTTL>>
       /\ UNCHANGED notCache

\* the process ends and a later run calls NewLayeredCache on the same
\* directory: the memory tier starts empty, the entry files are still there
CacheReopen ==
    /\ memory # EmptyMemory
    /\ memory' = EmptyMemory
    /\ lastGet' = NoGet /\ lastDelete' = NoDelete
    /\ UNCHANGED <<now, memoryTTL, diskTTL, disk, stored>>
    /\ UNCHANGED notCache

NextCache ==
    \/ CacheTick
    \/ \E c \in SetsTried : CacheSet(c.key, c.value, c.ttl, c.write)
    \/ \E k \in CacheKeys : CacheGet(k)
    \/ \E k \in CacheKeys : CacheDelete(k)
    \/ CacheClear
    \/ CacheReopen

(* =================== internal/pipeline: Pipeline.ScanURL =============== *)

\* what FetchWithRetry returns: an error, or one of the pages tried. "p0" is
\* served over plain HTTP and has no claim and no evidence link, "p1" is
\* served over TLS and has one claim and one evidence link, "bad" is a page
\* the claim extractor rejects
ScanFetches ==
    {[err |-> TRUE, html |-> "", tls |-> NoTLS],
     [err |-> FALSE, html |-> "p0", tls |-> PlainHTTP],
     [err |-> FALSE, html |-> "p1", tls |-> ValidTLS],
     [err |-> FALSE, html |-> "bad", tls |-> ValidTLS]}

\* claimExtractor.Extract
ExtractClaims(html) ==
    IF html = "p1" THEN <<(<<"the dish is popular">>)>> ELSE <<>>

\* evidExtractor.Extract: the number of evidence links
ExtractEvidence(html) == IF html = "p1" THEN 1 ELSE 0

\* what Validate returns for the evidence link of "p1"
ScanValidations ==
    {<<[authority |-> TierPrimary, hasAge |-> FALSE, age |-> 0,
        accessible |-> TRUE]>>,
     <<[authority |-> TierUnknown, hasAge |-> FALSE, age |-> 0,
        accessible |-> FALSE]>>}

\* what GenerateSummary returns: (nil, nil), a summary, a summary that only
\* carries warnings, or an error
LLMOutcomes == {"nil", "summary", "warnings", "error"}

\* Report.LLM == nil
NoLLM == "none"

\* no report
NoReport == [present |-> FALSE, source |-> "", html |-> "",
             claims |-> <<>>, evidence |-> 0, validation |-> <<>>,
             score |-> NoScore, llm |-> NoLLM]

\* json.Marshal(report)
MarshalReport(r) == <<"json", r>>

\* bytes that are not the JSON of a report
Garbage == <<"garbage">>

\* json.Unmarshal(data, &report)
UnmarshalReport(b) ==
    IF Len(b) = 2 /\ b[1] = "json"
    THEN [ok |-> TRUE, report |-> b[2]]
    ELSE [ok |-> FALSE, report |-> NoReport]

\* step 7: the report built from the fetch, the extraction, the validation
\* and the score with the TLS signals appended (html stands for Subject,
\* FetchMeta and the other fields copied from the fetch result)
BuildReport(u, fo, v) ==
    LET cl == ExtractClaims(fo.html)
        ev == ExtractEvidence(fo.html)
        val == IF ev = 0 THEN <<>> ELSE v
        sc == Calculate(cl, ev, val)
    IN [present |-> TRUE, source |-> u, html |-> fo.html,
        claims |-> cl, evidence |-> ev, validation |-> val,
        score |-> [sc EXCEPT !.signals =
                      AppendPageSignals(@, [tls |-> fo.tls, wikipedia |-> FALSE,
                                            wiki |-> <<>>])],
        llm |-> NoLLM]

\* step 7 for every URL, fetch result and validation result tried
BuiltReports ==
    [u \in CacheURLs, fo \in ScanFetches, v \in ScanValidations \cup {<<>>}
        |-> BuildReport(u, fo, v)]

\* the error of p.cache.Set makes ScanURL fail
SetErrorToScan_Propagated(e) == IF e THEN "cache set" ELSE ""

\* step 8: _ = p.cache.Set(...): the error is dropped
SetErrorToScan(e) == ""

\* the report is marshalled for the cache after the LLM step
ReportToCache_AfterLLM(built, final) == final

\* step 8 marshals the report as step 7 built it
ReportToCache(built, final) == built

\* the LLM step also recomputes the score
ApplyLLM_Rescored(r, lo) ==
    IF lo \in {"error", "nil"} THEN r
    ELSE [r EXCEPT !.llm = lo, !.score.index = 0]

\* step 9: an error is only printed, a nil summary is ignored, a summary is
\* attached to the report
ApplyLLM(r, lo) ==
    IF lo \in {"error", "nil"} THEN r ELSE [r EXCEPT !.llm = lo]

\* the cache check is skipped
ServeFromCache_Never(found, decoded) == FALSE

\* the cache check: the entry is returned if it was found and decodes
ServeFromCache(found, decoded) == found /\ decoded

\* the cache check of ScanURL: p.cache.Get(key) if the cache is enabled
CacheCheck(cfg, m, dk, k, t, dflt) ==
    IF cfg.cache THEN LayeredGet(m, dk, k, t, dflt)
    ELSE [hit |-> FALSE, data |-> <<>>, tier |-> "none", stamp |-> 0,
          promoted |-> FALSE, memory |-> m, disk |-> dk]

\* the report that an unexpired entry found by the cache check decodes to,
\* if any
Held(cfg, g, t) ==
    LET d == UnmarshalReport(g.data)
    IN IF cfg.cache /\ g.hit /\ t <= g.stamp /\ d.ok THEN d.report ELSE NoReport

\* Pipeline.ScanURL from the answer g of the cache check on: what it
\* returns, the steps it performs and what it leaves in the cache. fo, v, w,
\* lo are what the fetch, the validation, the write of the entry file and
\* the summarizer answer if they are reached
ScanURLResult(cfg, g, u, t, mdflt, ddflt, fo, v, w, lo) ==
    LET k == CacheKey(u)
        d == UnmarshalReport(g.data)
        c0 == IF cfg.cache THEN {"cache.Get"} ELSE {}
        built == BuiltReports[u, fo, v]
        final == IF cfg.summarizer THEN ApplyLLM(built, lo) ELSE built
        data == MarshalReport(ReportToCache(built, final))
        s == IF cfg.cache
             THEN LayeredSet(g.memory, g.disk, k, data, cfg.ttl, t, mdflt, ddflt, w)
             ELSE [err |-> FALSE, memory |-> g.memory, disk |-> g.disk]
        c1 == c0 \cup {"fetch", "extract", "validate", "score"}
                 \cup (IF cfg.cache THEN {"cache.Set"} ELSE {})
                 \cup (IF cfg.summarizer THEN {"llm"} ELSE {})
    IN IF ServeFromCache(g.hit, d.ok)
       THEN [report |-> d.report, err |-> "", calls |-> c0,
             memory |-> g.memory, disk |-> g.disk,
             set |-> FALSE, setErr |-> FALSE, cached |-> <<>>, llm |-> "skipped"]
       ELSE IF fo.err
       THEN [report |-> NoReport, err |-> "fetch", calls |-> c0 \cup {"fetch"},
             memory |-> g.memory, disk |-> g.disk,
             set |-> FALSE, setErr |-> FALSE, cached |-> <<>>, llm |-> "skipped"]
       ELSE IF fo.html = "bad"
       THEN [report |-> NoReport, err |-> "extract claims",
             calls |-> c0 \cup {"fetch", "extract"},
             memory |-> g.memory, disk |-> g.disk,
             set |-> FALSE, setErr |-> FALSE, cached |-> <<>>, llm |-> "skipped"]
       ELSE IF SetErrorToScan(s.err) # ""
       THEN [report |-> NoReport, err |-> SetErrorToScan(s.err),
             calls |-> c1 \ {"llm"}, memory |-> s.memory, disk |-> s.disk,
             set |-> cfg.cache, setErr |-> s.err, cached |-> data,
             llm |-> "skipped"]
       ELSE [report |-> final, err |-> "", calls |-> c1,
             memory |-> s.memory, disk |-> s.disk,
             set |-> cfg.cache, setErr |-> s.err,
             cached |-> IF cfg.cache THEN data ELSE <<>>,
             llm |-> IF cfg.summarizer THEN lo ELSE "absent"]

\* no call of ScanURL has just returned. ifWriteOk and ifNoLLM are what the
\* same call returns when the cache write succeeds and when no summarizer is
\* configured
NoScan == [called |-> FALSE, url |-> "", held |-> NoReport,
           report |-> NoReport, err |-> "", calls |-> {}, set |-> FALSE,
           setErr |-> FALSE, cached |-> <<>>, llm |-> "skipped",
           ifWriteOk |-> [report |-> NoReport, err |-> ""],
           ifNoLLM |-> [report |-> NoReport, err |-> ""]]

\* NewPipeline with cfg.Cache.Enabled = c, cfg.Cache.TTL = ttl and a
\* summarizer that is configured and enabled iff s
InitScanWith(c, s, ttl) ==
    /\ scanConfig = [cache |-> c, summarizer |-> s, ttl |-> ttl]
    /\ scanLast = NoScan

InitScan ==
    \E c \in BOOLEAN, s \in BOOLEAN, ttl \in 1..MaxTTL :
        InitScanWith(c, s, ttl) /\ InitCacheWith(ttl)

\* no scan is running
IdleScan == InitScanWith(FALSE, FALSE, 1)

\* the calls of ScanURL tried: for the first URL a fetch that fails, a page
\* the extractor rejects, and the two pages with every validation outcome,
\* way the cache write ends and answer of the summarizer
ScansTried ==
    {[url |-> "u1", fetch |-> fo, validation |-> <<>>, write |-> "ok",
      llm |-> "nil"] : fo \in {f \in ScanFetches : f.err \/ f.html = "bad"}}
    \cup {[url |-> "u1", fetch |-> fo, validation |-> <<>>, write |-> w,
            llm |-> lo] :
              fo \in {f \in ScanFetches : f.html = "p0"}, w \in DiskWrites,
              lo \in LLMOutcomes}
    \cup {[url |-> "u1", fetch |-> fo, validation |-> v, write |-> w,
            llm |-> lo] :
              fo \in {f \in ScanFetches : f.html = "p1"},
              v \in ScanValidations, w \in DiskWrites, lo \in LLMOutcomes}

\* one call of Pipeline.ScanURL
ScanURL(u, fo, v, w, lo) ==
    \E g \in {CacheCheck(scanConfig, memory, disk, CacheKey(u), now, memoryTTL)} :
    \E r \in {ScanURLResult(scanConfig, g, u, now, memoryTTL, diskTTL,
                            fo, v, w, lo)},
       ok \in {ScanURLResult(scanConfig, g, u, now, memoryTTL, diskTTL,
                             fo, v, "ok", lo)},
       base \in {ScanURLResult([scanConfig EXCEPT !.summarizer = FALSE], g, u,
                               now, memoryTTL, diskTTL, fo, v, w, "nil")} :
       /\ scanLast' = [called |-> TRUE, url |-> u,
                       held |-> Held(scanConfig, g, now),
                       report |-> r.report, err |-> r.err, calls |-> r.calls,
                       set |-> r.set, setErr |-> r.setErr,
                       cached |-> r.cached, llm |-> r.llm,
                       ifWriteOk |-> [report |-> ok.report, err |-> ok.err],
                       ifNoLLM |-> [report |-> base.report, err |-> base.err]]
       /\ memory' = r.memory
       /\ disk' = r.disk
       /\ stored' = IF r.set
                    THEN [stored EXCEPT ![CacheKey(u)] =
                            IF r.setErr THEN NoStored
                            ELSE [present |-> TRUE, data |-> r.cached,
                                  stamp |-> DiskExpiresAt(scanConfig.ttl, now,
                                                          diskTTL)]]
                    ELSE stored
       /\ lastGet' = NoGet /\ lastDelete' = NoDelete
       /\ UNCHANGED <<now, memoryTTL, diskTTL, scanConfig>>
       /\ UNCHANGED notScan

\* something else leaves under the key of a URL an unexpired entry whose
\* payload is not the JSON of a report
ForeignEntry(u) ==
    /\ scanConfig.cache
    /\ disk' = [disk EXCEPT ![CacheKey(u)] =
                  [present |-> TRUE, data |-> EncodeBytes(Garbage),
                   exp |-> now + diskTTL]]
    /\ stored' = [stored EXCEPT ![CacheKey(u)] = NoStored]
    /\ lastGet' = NoGet /\ lastDelete' = NoDelete
    /\ scanLast' = NoScan
    /\ UNCHANGED <<now, memoryTTL, diskTTL, memory, scanConfig>>
    /\ UNCHANGED notScan

\* time passes between two calls of ScanURL
ScanTick ==
    /\ now < MaxTime
    /\ now' = now + 1
    /\ lastGet' = NoGet /\ lastDelete' = NoDelete
    /\ scanLast' = NoScan
    /\ UNCHANGED <<memoryTTL, diskTTL, memory, disk, stored, scanConfig>>
    /\ UNCHANGED notScan

\* the process ends and a later run builds the same pipeline again
ScanReopen ==
    /\ memory # EmptyMemory
    /\ memory' = EmptyMemory
    /\ lastGet' = NoGet /\ lastDelete' = NoDelete
    /\ scanLast' = NoScan
    /\ UNCHANGED <<now, memoryTTL, diskTTL, disk, stored, scanConfig>>
    /\ UNCHANGED notScan

NextScan ==
    \/ \E c \in ScansTried : ScanURL(c.url, c.fetch, c.validation, c.write, c.llm)
    \/ ScanTick
    \/ ScanReopen
    \/ ForeignEntry("u1")

(* ===================== internal/worker/limiter.go ====================== *)

\* the hosts requests go to
LimiterHosts == {"h1", "h2"}

\* the URLs handed to Wait and Allow: a page of each host and a string
\* url.Parse rejects; none names a port
LimiterURLs ==
    {[valid |-> TRUE, host |-> "h1", path |-> "/a"],
     [valid |-> TRUE, host |-> "h2", path |-> "/a"],
     [valid |-> FALSE, host |-> "", path |-> ""]}

\* the goroutines that call Wait and Allow; they are alike, and the second
\* is taken to be the one that starts while the first is in a call
LimiterCallers == 1..2

\* requestsPerSecond as handed to NewLimiter and SetDomainRate, as the clock
\* ticks one token takes to refill
IntervalsTried == {1, 2}

\* burst as handed to NewLimiter and SetDomainRate
BurstsTried == {0, 1}

\* every URL belongs to one bucket
extractDomain_Constant(rawURL) ==
    IF rawURL.valid THEN [domain |-> "h1", err |-> FALSE]
    ELSE [domain |-> "", err |-> TRUE]

\* extractDomain: url.Parse(rawURL).Host
extractDomain(rawURL) ==
    IF rawURL.valid THEN [domain |-> rawURL.host, err |-> FALSE]
    ELSE [domain |-> "", err |-> TRUE]

\* NewLimiter: burst <= 0 becomes 5
NormalizeBurst(burst) == IF burst <= 0 THEN 5 ELSE burst

\* SetDomainRate: burst <= 0 becomes the default burst
OverrideBurst(burst, dflt) == IF burst <= 0 THEN dflt ELSE burst

\* rate.NewLimiter(r, b): a full bucket. tokens is kept in ticks, one token
\* being `interval` ticks of refill, so that it stays an integer;
\* owner is not a field of rate.Limiter: it records the host the bucket was
\* made for
NewRateLimiter(interval, burst, t, owner) ==
    [interval |-> interval, burst |-> burst, tokens |-> burst * interval,
     last |-> t, owner |-> owner]

\* rate.Limiter.advance: the tokens at instant t, capped at the burst
advance(lim, t) ==
    MinInt(lim.burst * lim.interval, lim.tokens + (t - lim.last))

\* rate.Limiter.Allow at instant t: reserveN(t, 1, 0) takes a token only if
\* one is there
RateAllow(lim, t) ==
    IF advance(lim, t) >= lim.interval
    THEN [ok |-> TRUE,
          lim |-> [lim EXCEPT !.tokens = advance(lim, t) - lim.interval,
                              !.last = t]]
    ELSE [ok |-> FALSE, lim |-> lim]

\* rate.Limiter.Wait at instant t without a deadline: reserveN(t, 1, Inf)
\* takes the token, the count going negative, and the caller sleeps until
\* the instant the token is there
RateReserve(lim, t) ==
    [lim |-> [lim EXCEPT !.tokens = advance(lim, t) - lim.interval,
                         !.last = t],
     due |-> IF advance(lim, t) - lim.interval < 0
             THEN t + (lim.interval - advance(lim, t))
             ELSE t]

\* getLimiter creates the bucket whatever the map holds by now
DoubleCheck_Skipped(m, domain) == FALSE

\* getLimiter, under the write lock: limiter, exists := l.limiters[domain]
DoubleCheck(m, domain) == m[domain] # 0

NoURL == [valid |-> FALSE, host |-> "", path |-> ""]

\* a goroutine that is in no call; slow tells that getLimiter took the write
\* lock
IdleCaller ==
    [pc |-> "idle", op |-> "", url |-> NoURL, domain |-> "", lim |-> 0,
     due |-> 0, slow |-> FALSE]

\* host is the host named by the URL or by the domain of the call
NoCall == [op |-> "", host |-> "", ok |-> FALSE, seq |-> 0]

\* the tokens a call of Allow for the host would find, in ticks, and the
\* ticks one token costs there
AvailableTicks(h) ==
    IF limiters[h] = 0 THEN limBurst * limInterval
    ELSE advance(buckets[limiters[h]], limNow)

TokenTicks(h) ==
    IF limiters[h] = 0 THEN limInterval ELSE buckets[limiters[h]].interval

InitLimiterWith(interval, burst) ==
    /\ limInterval = interval
    /\ limBurst = NormalizeBurst(burst)
    /\ limNow = 0
    /\ limiters = [h \in LimiterHosts |-> 0]
    /\ buckets = <<>>
    /\ lpc = [c \in LimiterCallers |-> IdleCaller]
    /\ limLast = NoCall
    /\ granted = [h \in LimiterHosts |-> <<>>]
    /\ created = [h \in LimiterHosts |-> 0]
    /\ overridden = {}
    /\ limCalls = 0

\* NewLimiter(requestsPerSecond, burst)
InitLimiter ==
    \E interval \in IntervalsTried, burst \in BurstsTried :
        InitLimiterWith(interval, burst)

\* no limiter is in use
IdleLimiter == InitLimiterWith(1, 1)

\* Wait / Allow up to the read-locked lookup of getLimiter: a URL that does
\* not parse ends the call, a host with an entry yields its bucket, a host
\* without one sends the caller to the write lock
LimiterCall(c, op, rawURL) ==
    /\ lpc[c].pc = "idle"
    /\ \A b \in LimiterCallers : b < c => lpc[b].pc # "idle"
    /\ limCalls < MaxLimiterCalls
    /\ limCalls' = limCalls + 1
    /\ \E d \in {extractDomain(rawURL)} :
         IF d.err
         THEN /\ limLast' = [op |-> op, host |-> rawURL.host, ok |-> FALSE,
                             seq |-> limLast.seq + 1]
              /\ UNCHANGED lpc
         ELSE /\ lpc' = [lpc EXCEPT ![c] =
                           [pc |-> IF limiters[d.domain] # 0 THEN "have"
                                   ELSE "miss",
                            op |-> op, url |-> rawURL, domain |-> d.domain,
                            lim |-> limiters[d.domain], due |-> 0,
                            slow |-> FALSE]]
              /\ UNCHANGED limLast
    /\ UNCHANGED <<limInterval, limBurst, limNow, limiters, buckets, granted,
                   created, overridden>>
    /\ UNCHANGED notLimiter

\* getLimiter from l.mu.Lock() to the deferred Unlock
GetLimiterLocked(c) ==
    /\ lpc[c].pc = "miss"
    /\ IF DoubleCheck(limiters, lpc[c].domain)
       THEN /\ lpc' = [lpc EXCEPT ![c].pc = "have", ![c].slow = TRUE,
                                  ![c].lim = limiters[lpc[c].domain]]
            /\ UNCHANGED <<limiters, buckets, created>>
       ELSE /\ buckets' = Append(buckets,
                                 NewRateLimiter(limInterval, limBurst, limNow,
                                                lpc[c].domain))
            /\ limiters' = [limiters EXCEPT ![lpc[c].domain] = Len(buckets) + 1]
            /\ created' = [created EXCEPT ![lpc[c].domain] = @ + 1]
            /\ lpc' = [lpc EXCEPT ![c].pc = "have", ![c].slow = TRUE,
                                  ![c].lim = Len(buckets) + 1]
    /\ UNCHANGED <<limInterval, limBurst, limNow, limLast, granted,
                   overridden, limCalls>>
    /\ UNCHANGED notLimiter

\* Allow: limiter.Allow() on the bucket getLimiter returned
LimiterAllow(c) ==
    /\ lpc[c].pc = "have"
    /\ lpc[c].op = "allow"
    /\ \E r \in {RateAllow(buckets[lpc[c].lim], limNow)} :
         /\ buckets' = [buckets EXCEPT ![lpc[c].lim] = r.lim]
         /\ limLast' = [op |-> "allow", host |-> lpc[c].url.host, ok |-> r.ok,
                        seq |-> limLast.seq + 1]
         /\ granted' = IF r.ok
                       THEN [granted EXCEPT ![lpc[c].url.host] =
                                               Append(@, limNow)]
                       ELSE granted
    /\ lpc' = [lpc EXCEPT ![c] = IdleCaller]
    /\ UNCHANGED <<limInterval, limBurst, limNow, limiters, created,
                   overridden, limCalls>>
    /\ UNCHANGED notLimiter

\* Wait: limiter.Wait(ctx) reserves its token and starts to sleep
LimiterWaitReserve(c) ==
    /\ lpc[c].pc = "have"
    /\ lpc[c].op = "wait"
    /\ \E r \in {RateReserve(buckets[lpc[c].lim], limNow)} :
         /\ buckets' = [buckets EXCEPT ![lpc[c].lim] = r.lim]
         /\ lpc' = [lpc EXCEPT ![c].pc = "sleeping", ![c].due = r.due]
    /\ UNCHANGED <<limInterval, limBurst, limNow, limiters, limLast, granted,
                   created, overridden, limCalls>>
    /\ UNCHANGED notLimiter

\* Wait returns nil at the instant its token is there
LimiterWaitDone(c) ==
    /\ lpc[c].pc = "sleeping"
    /\ lpc[c].due <= limNow
    /\ limLast' = [op |-> "wait", host |-> lpc[c].url.host, ok |-> TRUE,
                   seq |-> limLast.seq + 1]
    /\ granted' = [granted EXCEPT ![lpc[c].url.host] = Append(@, limNow)]
    /\ lpc' = [lpc EXCEPT ![c] = IdleCaller]
    /\ UNCHANGED <<limInterval, limBurst, limNow, limiters, buckets, created,
                   overridden, limCalls>>
    /\ UNCHANGED notLimiter

\* SetDomainRate(domain, requestsPerSecond, burst), under the write lock
SetDomainRate(domain, interval, burst) ==
    /\ limCalls < MaxLimiterCalls
    /\ limCalls' = limCalls + 1
    /\ buckets' = Append(buckets,
                         NewRateLimiter(interval,
                                        OverrideBurst(burst, limBurst), limNow,
                                        domain))
    /\ limiters' = [limiters EXCEPT ![domain] = Len(buckets) + 1]
    /\ overridden' = overridden \cup {domain}
    /\ limLast' = [op |-> "set", host |-> domain, ok |-> TRUE,
                   seq |-> limLast.seq + 1]
    /\ UNCHANGED <<limInterval, limBurst, limNow, lpc, granted, created>>
    /\ UNCHANGED notLimiter

\* the clock; a sleeper whose instant has come wakes before it moves on
LimiterTick ==
    /\ limNow < MaxLimiterTime
    /\ \A c \in LimiterCallers :
          lpc[c].pc = "sleeping" => lpc[c].due > limNow
    /\ limNow' = limNow + 1
    /\ UNCHANGED <<limInterval, limBurst, limiters, buckets, lpc, limLast,
                   granted, created, overridden, limCalls>>
    /\ UNCHANGED notLimiter

NextLimiter ==
    \/ \E c \in LimiterCallers, op \in {"wait", "allow"}, u \in LimiterURLs :
          LimiterCall(c, op, u)
    \/ \E c \in LimiterCallers :
          GetLimiterLocked(c) \/ LimiterAllow(c) \/ LimiterWaitReserve(c)
            \/ LimiterWaitDone(c)
    \/ \E h \in LimiterHosts, interval \in IntervalsTried, burst \in BurstsTried :
          SetDomainRate(h, interval, burst)
    \/ LimiterTick

(* ========================= util: RobotsChecker ========================= *)

\* the hosts whose robots.txt is asked for
RobotsHosts == {"r1", "r2"}

\* the paths of a site
RobotsPaths == {"/", "/private"}

\* the URLs handed to CanFetch, and a string url.Parse rejects
RobotsURLs ==
    {[valid |-> TRUE, host |-> "r1", path |-> "/"],
     [valid |-> TRUE, host |-> "r1", path |-> "/private"],
     [valid |-> TRUE, host |-> "r2", path |-> "/private"],
     [valid |-> FALSE, host |-> "", path |-> ""]}

\* the goroutines that call CanFetch; they are alike, and the second is
\* taken to be the one that starts while the first is in a call
RobotsCallers == 1..2

\* what a GET of /robots.txt meets: a network error, a status with a body
\* that parses (to rules for the user agent: the paths disallowed and the
\* Crawl-delay) or a body that does not
RobotsAnswers ==
    {[kind |-> "error", status |-> 0, parses |-> FALSE, disallow |-> {},
      delay |-> 0]}
      \cup {[kind |-> "status", status |-> s, parses |-> TRUE,
             disallow |-> {"/private"}, delay |-> 2] : s \in {200, 404, 503}}
      \cup {[kind |-> "status", status |-> 200, parses |-> FALSE,
             disallow |-> {}, delay |-> 0]}

\* no *robotstxt.RobotsData
NoRobotsData ==
    [present |-> FALSE, allowAll |-> FALSE, disallowAll |-> FALSE,
     disallow |-> {}, delay |-> 0, status |-> 0]

\* robotstxt.FromStatusAndBytes: 2xx parses the body, 4xx allows all, 5xx
\* disallows all. status is not a field of RobotsData: it records the answer
\* the data was made from
FromStatusAndBytes(answer) ==
    IF answer.status >= 200 /\ answer.status < 300
    THEN IF answer.parses
         THEN [data |-> [present |-> TRUE, allowAll |-> FALSE,
                         disallowAll |-> FALSE, disallow |-> answer.disallow,
                         delay |-> answer.delay, status |-> answer.status],
               err |-> FALSE]
         ELSE [data |-> NoRobotsData, err |-> TRUE]
    ELSE IF answer.status >= 400 /\ answer.status < 500
    THEN [data |-> [present |-> TRUE, allowAll |-> TRUE, disallowAll |-> FALSE,
                    disallow |-> {}, delay |-> 0, status |-> answer.status],
          err |-> FALSE]
    ELSE IF answer.status >= 500 /\ answer.status < 600
    THEN [data |-> [present |-> TRUE, allowAll |-> FALSE, disallowAll |-> TRUE,
                    disallow |-> {}, delay |-> 0, status |-> answer.status],
          err |-> FALSE]
    ELSE [data |-> NoRobotsData, err |-> TRUE]

\* getRobotsData from httpClient.Do on: what it returns, and whether it
\* caches it
FetchRobotsData(answer) ==
    IF answer.kind = "error"
    THEN [data |-> NoRobotsData, err |-> TRUE, cache |-> FALSE]
    ELSE [data |-> FromStatusAndBytes(answer).data,
          err |-> FromStatusAndBytes(answer).err,
          cache |-> ~FromStatusAndBytes(answer).err]

\* RobotsData.TestAgent(path, userAgent)
TestAgent(data, path) ==
    IF data.allowAll THEN TRUE
    ELSE IF data.disallowAll THEN FALSE
    ELSE path \notin data.disallow

\* RobotsData.FindGroup(userAgent).CrawlDelay; the empty group has none
CrawlDelay(data) == data.delay

\* CanFetch refuses when robots.txt cannot be had
CanFetchResult_FailClosed(r, path) ==
    IF r.err THEN [allowed |-> FALSE, delay |-> 0, err |-> TRUE]
    ELSE [allowed |-> TestAgent(r.data, path), delay |-> CrawlDelay(r.data),
          err |-> FALSE]

\* CanFetch after getRobotsData returned r
CanFetchResult(r, path) ==
    IF r.err THEN [allowed |-> TRUE, delay |-> 0, err |-> FALSE]
    ELSE [allowed |-> TestAgent(r.data, path), delay |-> CrawlDelay(r.data),
          err |-> FALSE]

\* a goroutine that is in no call
IdleRobotsCaller == [pc |-> "idle", url |-> NoURL, got |-> NoRobotsData]

\* met is what getRobotsData met: "cache", "error" (the GET failed),
\* "parse" (the body did not parse) or "status" with the status answered
NoCanFetch ==
    [url |-> NoURL, met |-> "", status |-> 0, allowed |-> FALSE, delay |-> 0,
     err |-> FALSE, seq |-> 0]

CanFetchReturn(u, met, status, r) ==
    [url |-> u, met |-> met, status |-> status, allowed |-> r.allowed,
     delay |-> r.delay, err |-> r.err, seq |-> robotsLast.seq + 1]

InitRobots ==
    /\ robotsCache = [h \in RobotsHosts |-> NoRobotsData]
    /\ rpc = [c \in RobotsCallers |-> IdleRobotsCaller]
    /\ robotsFetches = [h \in RobotsHosts |-> 0]
    /\ robotsLast = NoCanFetch
    /\ robotsCalls = 0

\* no robots checker is in use
IdleRobots == InitRobots

\* CanFetch up to the read-locked lookup of getRobotsData: a URL that does
\* not parse is refused with an error, a cached host is answered from the
\* cache, any other host is fetched
CanFetchLookup(c, rawURL) ==
    /\ rpc[c].pc = "idle"
    /\ \A b \in RobotsCallers : b < c => rpc[b].pc # "idle"
    /\ robotsCalls < MaxRobotsCalls
    /\ robotsCalls' = robotsCalls + 1
    /\ IF ~rawURL.valid
       THEN /\ robotsLast' = CanFetchReturn(rawURL, "url", 0,
                                [allowed |-> FALSE, delay |-> 0, err |-> TRUE])
            /\ UNCHANGED rpc
       ELSE IF robotsCache[rawURL.host].present
       THEN /\ robotsLast' =
                 CanFetchReturn(rawURL, "cache", robotsCache[rawURL.host].status,
                     CanFetchResult([data |-> robotsCache[rawURL.host],
                                     err |-> FALSE], rawURL.path))
            /\ UNCHANGED rpc
       ELSE /\ rpc' = [rpc EXCEPT ![c] = [pc |-> "fetching", url |-> rawURL,
                                          got |-> NoRobotsData]]
            /\ UNCHANGED robotsLast
    /\ UNCHANGED <<robotsCache, robotsFetches>>
    /\ UNCHANGED notRobots

\* getRobotsData: r.httpClient.Do(req) and what follows up to cacheData; a
\* failure returns from CanFetch
RobotsGet(c, answer) ==
    /\ rpc[c].pc = "fetching"
    /\ robotsFetches' = [robotsFetches EXCEPT ![rpc[c].url.host] = @ + 1]
    /\ \E r \in {FetchRobotsData(answer)} :
         IF r.cache
         THEN /\ rpc' = [rpc EXCEPT ![c].pc = "caching", ![c].got = r.data]
              /\ UNCHANGED robotsLast
         ELSE /\ rpc' = [rpc EXCEPT ![c] = IdleRobotsCaller]
              /\ robotsLast' =
                   CanFetchReturn(rpc[c].url,
                       IF answer.kind = "error" THEN "error" ELSE "parse",
                       answer.status, CanFetchResult(r, rpc[c].url.path))
    /\ UNCHANGED <<robotsCache, robotsCalls>>
    /\ UNCHANGED notRobots

\* cacheData under the write lock, then the rest of CanFetch
RobotsCacheData(c) ==
    /\ rpc[c].pc = "caching"
    /\ robotsCache' = [robotsCache EXCEPT ![rpc[c].url.host] = rpc[c].got]
    /\ robotsLast' =
         CanFetchReturn(rpc[c].url, "status", rpc[c].got.status,
             CanFetchResult([data |-> rpc[c].got, err |-> FALSE],
                            rpc[c].url.path))
    /\ rpc' = [rpc EXCEPT ![c] = IdleRobotsCaller]
    /\ UNCHANGED <<robotsFetches, robotsCalls>>
    /\ UNCHANGED notRobots

NextRobots ==
    \/ \E c \in RobotsCallers, u \in RobotsURLs : CanFetchLookup(c, u)
    \/ \E c \in RobotsCallers, answer \in RobotsAnswers : RobotsGet(c, answer)
    \/ \E c \in RobotsCallers : RobotsCacheData(c)

(* ========================== specifications ============================= *)

\* a pool client; nothing else is running
Init == InitClient /\ IdleValidator /\ IdleScorer /\ InitFetcher /\ IdleCache
        /\ IdleScan
        /\ IdleProbe
        /\ IdleLimiter
        /\ IdleRobots
        /\ IdleClassifier

\* a pool client that may be shut down by another goroutine
Spec == Init /\ [][Next]_vars

\* ProcessURLs about to be called; nothing else is running
BatchInit == InitPool /\ IdleValidator /\ IdleScorer /\ InitFetcher /\ IdleCache
        /\ IdleScan
        /\ IdleProbe
        /\ IdleLimiter
        /\ IdleRobots
        /\ IdleClassifier

\* ProcessURLs; the Go scheduler runs every runnable goroutine and every
\* scan terminates
BatchSpec ==
    /\ BatchInit
    /\ [][NextBatch]_vars
    /\ WF_vars(ProcessEmpty \/ NewPoolStart \/ SubmitEnqueue \/ WaitClose
                 \/ WaitCollect \/ WaitReturn)
    /\ WF_vars(CloserClose)
    /\ \A w \in WorkerIds :
          WF_vars(WorkerTake(w) \/ WorkerExecDone(w) \/ WorkerSend(w)
                    \/ WorkerExitClosed(w))

\* ProcessURLs about to be called with a context the caller may cancel
DeadlineInit == InitClient /\ IdleValidator /\ IdleScorer /\ InitFetcher
        /\ IdleCache /\ IdleScan
        /\ IdleProbe
        /\ IdleLimiter
        /\ IdleRobots
        /\ IdleClassifier

\* ProcessURLs while the caller's context may be cancelled or expire
DeadlineSpec == DeadlineInit /\ [][NextDeadline]_vars

\* Validate about to be called; nothing else is running
ValidateInit == InitValidate /\ IdlePool /\ IdleScorer /\ InitFetcher /\ IdleCache
        /\ IdleScan
        /\ IdleProbe
        /\ IdleLimiter
        /\ IdleRobots
        /\ IdleClassifier

\* one call of Validate with a context that may be cancelled at any time
ValidateSpec == ValidateInit /\ [][NextValidate]_vars

\* Calculate about to be called; nothing else is running
ScoreInit == InitScorer /\ IdlePool /\ IdleValidator /\ InitFetcher /\ IdleCache
        /\ IdleScan
        /\ IdleProbe
        /\ IdleLimiter
        /\ IdleRobots
        /\ IdleClassifier

\* one call of Calculate on any claims, evidence count and validation results
ScoreSpec == ScoreInit /\ [][NextScore]_vars

\* a page fetched and validated, about to be scored; nothing else is running
SignalInit ==
    InitSignals /\ IdlePool /\ IdleValidator /\ InitFetcher /\ IdleCache
        /\ IdleScan /\ IdleProbe
        /\ IdleLimiter
        /\ IdleRobots
        /\ IdleClassifier

\* steps 5 and 6 of ScanURL for any page
SignalSpec == SignalInit /\ [][NextSignals]_vars

\* FetchWithRetry about to be called; nothing else is running
FetchInit == InitFetcher /\ IdlePool /\ IdleValidator /\ IdleScorer /\ IdleCache
        /\ IdleScan
        /\ IdleProbe
        /\ IdleLimiter
        /\ IdleRobots
        /\ IdleClassifier

\* one call of FetchWithRetry against any server
FetchSpec == FetchInit /\ [][NextFetch]_vars

\* one URL about to be probed and fetched; nothing else is running
ProbeInit ==
    InitProbe /\ IdlePool /\ IdleValidator /\ IdleScorer /\ InitFetcher
        /\ IdleCache /\ IdleScan
        /\ IdleLimiter
        /\ IdleRobots
        /\ IdleClassifier

\* one HEAD probe and one page GET of a URL behind any redirect chain
ProbeSpec == ProbeInit /\ [][NextProbe]_vars

\* a layered cache as NewPipeline builds it; nothing else is running
CacheInit ==
    InitCache /\ IdleScan /\ IdlePool /\ IdleValidator /\ IdleScorer
        /\ InitFetcher
        /\ IdleProbe
        /\ IdleLimiter
        /\ IdleRobots
        /\ IdleClassifier

\* any sequence of Set, Get, Delete and Clear, any passage of time, and the
\* cache directory being reopened by a later run
CacheSpec == CacheInit /\ [][NextCache]_vars

\* a pipeline as NewPipeline builds it; nothing else is running
ScanInit ==
    InitScan /\ IdlePool /\ IdleValidator /\ IdleScorer /\ InitFetcher
        /\ IdleProbe
        /\ IdleLimiter
        /\ IdleRobots
        /\ IdleClassifier

\* any sequence of calls of ScanURL against any site, validation outcome,
\* cache directory and summarizer, with time passing between the calls
ScanSpec == ScanInit /\ [][NextScan]_vars

\* a Limiter as NewLimiter builds it; nothing else is running
LimiterInit ==
    InitLimiter /\ IdlePool /\ IdleValidator /\ IdleScorer /\ InitFetcher
        /\ IdleCache /\ IdleScan /\ IdleProbe
        /\ IdleRobots
        /\ IdleClassifier

\* goroutines calling Wait and Allow while overrides are installed and time
\* passes
LimiterSpec == LimiterInit /\ [][NextLimiter]_vars

\* a RobotsChecker as NewRobotsChecker builds it; nothing else is running
RobotsInit ==
    InitRobots /\ IdlePool /\ IdleValidator /\ IdleScorer /\ InitFetcher
        /\ IdleCache /\ IdleScan /\ IdleProbe /\ IdleLimiter
        /\ IdleClassifier

\* goroutines calling CanFetch against any servers
RobotsSpec == RobotsInit /\ [][NextRobots]_vars

\* a classifier and a URL about to be classified; nothing else is running
ClassifyInit ==
    InitClassifier /\ IdlePool /\ IdleValidator /\ IdleScorer /\ InitFetcher
        /\ IdleCache /\ IdleScan /\ IdleProbe /\ IdleLimiter /\ IdleRobots

\* one call of Classify for any configuration and URL
ClassifySpec == ClassifyInit /\ [][NextClassify]_vars

(* ============================== claims ================================ *)

\* C1: Validate returns exactly len(evidence) results and result i carries
\* the URL of evidence i, whatever the interleaving and with or without
\* cancellation.
C1_ValidateSameLengthSameOrder ==
    valPC = "returned" =>
        /\ Len(vresults) = Len(evidence)
        /\ \A i \in 1..Len(evidence) : vresults[i].url = evidence[i]

\* Validate has returned for two different URLs, one cancelled at the select
\* and one probed
C1_Witness ==
    /\ valPC = "returned"
    /\ Len(evidence) >= 2
    /\ evidence[1] # evidence[2]
    /\ \E i \in 1..Len(evidence) : vresults[i] = CancelledResult(evidence[i])
    /\ \E i \in 1..Len(evidence) : vresults[i].status = 200

\* the multiset of URLs of a sequence of results
ResultsFor(rs, j) == {k \in 1..Len(rs) : rs[k].url = j}

\* C2: when the pool is not shut down, Wait returns exactly one result per
\* submitted job and every submitted job has been executed exactly once.
C2_OneResultPerJob ==
    /\ \A j \in Jobs : execCount[j] <= 1
    /\ (mainPC = "returned" /\ ~poolCtxDone) =>
          /\ Len(collected) = urls
          /\ \A j \in 1..urls :
                /\ Cardinality(ResultsFor(collected, j)) = 1
                /\ execCount[j] = 1

\* a batch of at least three URLs on two workers has returned, with the
\* results in another order than the URLs
C2_Witness ==
    /\ mainPC = "returned"
    /\ urls >= 3
    /\ workers = 2
    /\ collected[1].url # 1

\* C3: for every number of URLs and every concurrency ProcessURLs eventually
\* returns, provided every scan terminates.
C3_ProcessURLsReturns == <>(mainPC = "returned")

\* C4: for every input the index returned by Calculate is within [0, 100].
C4_IndexWithinRange ==
    scorePC = "done" => (0 <= sScore.index /\ sScore.index <= 100)

\* C5: after Shutdown every job submitted before the shutdown has exactly one
\* result, once the pool has wound down.
C5_ShutdownOneResultPerJob ==
    (sdPC = "done" /\ mainPC = "returned") =>
        \A j \in queuedAtShutdown :
            Cardinality(ResultsFor(collected, j)) = 1

\* the result Validate writes when it sees the cancellation at the select
C6_Marker(u) ==
    [url |-> u, accessible |-> FALSE, dead |-> FALSE, status |-> 0,
     authority |-> TierUnknown, error |-> <<"context cancelled">>]

\* C6: an item whose probe had not begun when the context was cancelled ends
\* with exactly {url, accessible = false, error = "context cancelled"} and no
\* HEAD request is issued for it.
C6_CancelledBeforeProbe ==
    \A i \in cancelledEarly :
        gpc[i] = "done" =>
            /\ vresults[i] = C6_Marker(evidence[i])
            /\ heads[i] = 0

\* C7: at most max_workers probes (retries and backoff waits included) are in
\* flight at any moment; a non-positive max_workers means 20.
C7_InFlightBounded ==
    /\ Cardinality(InFlight) <= maxWorkers
    /\ semaphore = Cardinality(InFlight)
    /\ cfgMaxWorkers <= 0 => maxWorkers = 20
    /\ cfgMaxWorkers > 0 => maxWorkers = cfgMaxWorkers

\* the semaphore is full with a probe in its backoff wait while another item
\* waits for a slot
C7_Witness ==
    /\ Cardinality(InFlight) = maxWorkers
    /\ \E i \in EvidenceIds : gpc[i] = "backoff"
    /\ \E i \in EvidenceIds : gpc[i] = "select"

\* C8: never more than `workers` jobs execute at once; a pool created with
\* workers <= 0 runs exactly one worker.
C8_AtMostWorkersExecuting ==
    /\ Cardinality(Executing) <= workers
    /\ (workers > 0 /\ concurrency <= 0) =>
          Cardinality({w \in WorkerIds : wpc[w] # "none"}) = 1

\* both workers of a two-worker pool execute while a further job is queued
C8_Witness ==
    /\ workers = 2
    /\ Cardinality(Executing) = 2
    /\ jobQueue # <<>>

\* what the claim calls retryable: a 5xx, a 429 or a transient network error
C9_Retryable(o) ==
    \/ (o.kind = "status" /\ o.code \in 500..599)
    \/ (o.kind = "status" /\ o.code = 429)
    \/ (o.kind = "error"
          /\ o.text \in {"timeout", "connection refused", "connection reset"})

\* C9: FetchWithRetry makes at most 3 attempts, makes a further attempt only
\* after a retryable failure, returns at the first success or non-retryable
\* error (a 404 after one attempt), and returns an error after the third
\* retryable failure.
C9_FetchRetry ==
    /\ Len(fetchLog) <= 3
    /\ \A k \in 1..(Len(fetchLog) - 1) : C9_Retryable(fetchLog[k])
    /\ (fetchPC # "done" /\ fetchLog # <<>>) =>
          C9_Retryable(fetchLog[Len(fetchLog)])
    /\ fetchPC = "done" =>
          /\ fetchLog # <<>>
          /\ Len(fetchLog) < 3 => ~C9_Retryable(fetchLog[Len(fetchLog)])
          /\ fetchReturn.ok <=>
                (fetchLog[Len(fetchLog)].kind = "status"
                   /\ fetchLog[Len(fetchLog)].code \in 200..299)
          /\ fetchReturn = fetchLast

\* three 503 answers in a row ended in an error
C9_Witness ==
    /\ fetchPC = "done"
    /\ Len(fetchLog) = 3
    /\ \A k \in 1..3 : fetchLog[k].code = 503
    /\ ~fetchReturn.ok

\* a 5xx, a 429 or a transient network error
C10_Transient(r) ==
    \/ r.status \in 500..599
    \/ r.status = 429
    \/ r.error \in {<<"request failed:", "timeout">>,
                    <<"request failed:", "connection refused">>,
                    <<"request failed:", "connection reset">>}

\* C10: at most 3 HEAD attempts per evidence URL; a further attempt is made
\* only after a 5xx, a 429 or a transient network error; the result returned
\* is the result of the last attempt; a run that ends on a retryable result
\* has made exactly 3 attempts.
C10_ValidatorRetry ==
    \A i \in EvidenceIds :
        /\ heads[i] <= 3
        /\ gpc[i] = "backoff" => C10_Transient(gresult[i])
        /\ (gpc[i] = "probe" /\ heads[i] > 0) => C10_Transient(gresult[i])
        /\ (gpc[i] \in {"write", "done"} /\ heads[i] > 0 /\ heads[i] < 3) =>
               ~C10_Transient(gresult[i])
        /\ (gpc[i] = "done" /\ heads[i] > 0) =>
               /\ vresults[i] = gresult[i]
               /\ C10_Transient(vresults[i]) => heads[i] = 3

\* one URL answered 503 three times and another ended on a 404 after a retry
C10_Witness ==
    /\ \E i \in EvidenceIds :
          gpc[i] = "done" /\ heads[i] = 3 /\ vresults[i].status = 503
    /\ \E i \in EvidenceIds :
          gpc[i] = "done" /\ heads[i] = 2 /\ vresults[i].status = 404

\* C11: a Get of the layered cache never returns a value after the expires_at
\* stamp of the entry the value was stored with has passed.
C11_NoValueAfterExpiresAt ==
    (lastGet.called /\ lastGet.hit) => lastGet.at <= lastGet.stamp

\* C12: after a successful Set(key, bytes, ttl), a Get of the key made before
\* the entry expires and before any Delete, Clear or later Set of the key is
\* a hit with exactly the stored bytes, whichever tier serves it.
C12_GetReturnsStoredBytes ==
    (lastGet.called /\ lastGet.want.present /\ lastGet.at <= lastGet.want.stamp)
        => (lastGet.hit /\ lastGet.data = lastGet.want.data)

\* a Get served by the disk tier returned the bytes of the last Set
C12_Witness ==
    /\ lastGet.called
    /\ lastGet.want.present
    /\ lastGet.at > 0
    /\ lastGet.at <= lastGet.want.stamp
    /\ lastGet.tier = "disk"
    /\ lastGet.data = <<"r2">>

\* C13: a Get that misses the memory tier and hits an unexpired disk entry
\* returns the disk bytes and leaves the entry in the memory tier; a Get that
\* finds the key in the memory tier is served from it and leaves the disk alone.
C13_DiskHitPromotes ==
    [][\A k \in CacheKeys :
         CacheGet(k) =>
           /\ (~MemoryHit(memory, k, now) /\ DiskHit(disk, k, now))
                => /\ lastGet'.hit
                   /\ lastGet'.data = DecodeBytes(disk[k].data)
                   /\ MemoryHit(memory', k, now')
                   /\ memory'[k].data = lastGet'.data
           /\ MemoryHit(memory, k, now)
                => /\ lastGet'.tier = "memory"
                   /\ lastGet'.data = memory[k].data
                   /\ disk' = disk]_vars

\* a Get was served from the memory tier by an item that a disk hit left there
C13_Witness ==
    /\ lastGet.called
    /\ lastGet.tier = "memory"
    /\ lastGet.promoted
    /\ disk[lastGet.key].present

\* C14: when the cache is enabled and holds an unexpired, decodable report
\* under the URL's key, ScanURL returns that report and performs no fetch,
\* extraction, validation, scoring or cache write.
C14_CacheHitShortCircuits ==
    (scanLast.called /\ scanLast.held.present)
        => /\ scanLast.report = scanLast.held
           /\ scanLast.err = ""
           /\ scanLast.calls = {"cache.Get"}
           /\ ~scanLast.set

\* a call of ScanURL returned the report found in the cache
C14_Witness ==
    /\ scanLast.called
    /\ scanLast.held.present
    /\ scanLast.held.html = "p1"
    /\ scanLast.report = scanLast.held

\* C15: the report ScanURL writes to the cache is the report as it is before
\* the LLM step; no cached report carries an LLM summary.
C15_CachedReportIsPreLLM ==
    /\ \A k \in CacheKeys :
          /\ (memory[k].present /\ UnmarshalReport(memory[k].data).ok)
                => UnmarshalReport(memory[k].data).report.llm = NoLLM
          /\ (disk[k].present /\ UnmarshalReport(DecodeBytes(disk[k].data)).ok)
                => UnmarshalReport(DecodeBytes(disk[k].data)).report.llm = NoLLM
    /\ (scanLast.called /\ scanLast.set)
          => scanLast.cached
               = MarshalReport([scanLast.report EXCEPT !.llm = NoLLM])

\* a scan whose summarizer produced a summary left a report in the cache
C15_Witness ==
    /\ scanLast.called
    /\ scanLast.set
    /\ ~scanLast.setErr
    /\ scanLast.report.llm = "summary"
    /\ memory[CacheKey(scanLast.url)].data = scanLast.cached
    /\ disk[CacheKey(scanLast.url)].present

\* C16: a failing cache write never fails the scan: ScanURL returns the same
\* report and the same (nil) error as when the write succeeds.
C16_SetFailureIgnored ==
    scanLast.called
        => /\ scanLast.report = scanLast.ifWriteOk.report
           /\ scanLast.err = scanLast.ifWriteOk.err
           /\ scanLast.setErr => scanLast.err = ""

\* a scan whose cache write failed returned its report and no error
C16_Witness ==
    /\ scanLast.called
    /\ scanLast.setErr
    /\ scanLast.err = ""
    /\ scanLast.report.present

\* the parts of a report that make the scan outcome
C17_Outcome(r) ==
    [present |-> r.present, claims |-> r.claims, evidence |-> r.evidence,
     validation |-> r.validation, score |-> r.score]

\* C17: for the same fetch and validation results the claims, evidence,
\* validation and score of the returned report and the returned error are
\* what they are without a summarizer, whatever the summarizer answers.
C17_LLMNeverChangesOutcome ==
    scanLast.called
        => /\ C17_Outcome(scanLast.report) = C17_Outcome(scanLast.ifNoLLM.report)
           /\ scanLast.err = scanLast.ifNoLLM.err

\* a scan whose summarizer failed returned its scored report and no error
C17_Witness ==
    /\ scanLast.called
    /\ scanLast.llm = "error"
    /\ scanLast.err = ""
    /\ scanLast.report.present
    /\ scanLast.report.score.index > 0

\* C18: when ProcessURLs returns, a URL whose scan fails has one result that
\* carries the URL, an error and no report, every other URL has one result
\* with its report and no error, and no URL is missing from the batch.
C18_FailureIsolated ==
    mainPC = "returned" =>
        /\ Len(collected) = urls
        /\ \A j \in 1..urls :
              /\ Cardinality(ResultsFor(collected, j)) = 1
              /\ \A k \in ResultsFor(collected, j) :
                    IF j \in FailingURLs
                    THEN collected[k].error # "nil" /\ collected[k].report = "nil"
                    ELSE collected[k].error = "nil" /\ collected[k].report = "report"

\* a batch with a failing URL between two URLs that scan well has returned
C18_Witness ==
    /\ mainPC = "returned"
    /\ urls >= 3
    /\ \E k \in 1..Len(collected) :
          collected[k].url \in FailingURLs /\ collected[k].error # "nil"
    /\ \E k \in 1..Len(collected) :
          collected[k].url = 3 /\ collected[k].report = "report"

\* C19: a job handed to Submit after Shutdown has been called is never
\* executed. Job j is handed to Submit after the cancellation when at the
\* cancellation the Submit loop had not yet reached job j - 1.
C19_NoExecuteAfterShutdown ==
    poolCtxDone =>
        \A j \in Jobs :
            j > Cardinality(queuedAtShutdown) + 1 => execCount[j] = 0

\* C20: the results channel is closed at most once, only when every worker
\* goroutine has exited, and it is closed once Wait's goroutine or Shutdown
\* has finished, whatever the interleaving of the two.
C20_ResultsClosedOnce ==
    /\ resultsClosed <= 1
    /\ resultsClosed = 1 => (workers > 0 /\ WgCount = 0)
    /\ (closerPC = "done" \/ sdPC = "done") => resultsClosed = 1

\* Wait and Shutdown were both called on a pool that ran jobs and both have
\* gone through closeResults
C20_Witness ==
    /\ closerPC = "done"
    /\ sdPC = "done"
    /\ resultsClosed = 1
    /\ \E j \in Jobs : execCount[j] > 0

(* C21: cancellation or expiry of the context handed to ProcessURLs is      *)
(* observed by the batch: once that context is done, the context handed to  *)
(* every running job's Execute (the pool's context) is done as well.        *)
C21_BatchObservesCancel ==
    (batchCtxDone /\ Executing # {}) => poolCtxDone

\* the network call of a probe failed: httpClient.Do returned an error
C22_CallFailed(r) == r.error # <<>> /\ Head(r.error) = "request failed:"

C23_AuthorityAlwaysFilled ==
    valPC = "returned" =>
        \A i \in 1..Len(vresults) :
            /\ vresults[i].authority = ClassifyEvidence(evidence[i])
            /\ vresults[i].authority # TierUnknown

(* C24: the page fetcher and the evidence validator both follow a redirect  *)
(* chain of up to 3 hops and return the final response; only a chain that   *)
(* needs more than 3 hops is an error.                                      *)
C24_ThreeHopsFollowed ==
    /\ headLast.state = "probed" =>
          IF probe.hops <= 3
          THEN (probe.final.kind = "status" =>
                    /\ headLast.result.error = <<>>
                    /\ headLast.result.status = probe.final.code)
          ELSE headLast.result.error = <<"request failed:",
                                        "stopped after 3 redirects">>
    /\ getLast.state = "fetched" =>
          IF probe.hops <= 3
          THEN (probe.final.kind = "status" =>
                    /\ getLast.result.status = probe.final.code
                    /\ getLast.result.err.cause # "stopped after 3 redirects")
          ELSE getLast.result.err.cause = "stopped after 3 redirects"

(* C25: when a response body is larger than max_body_bytes, Fetch surfaces  *)
(* a permanent error that is not retried; no successful result is returned  *)
(* for a body that exceeded the cap.                                        *)
C25_OversizeBodyIsError ==
    \A k \in 1..Len(fetchLog) :
        (fetchLog[k].kind = "status" /\ fetchLog[k].code \in 200..299
           /\ fetchLog[k].body > MaxBodyBytes) =>
              /\ k = Len(fetchLog)
              /\ ~fetchLast.ok
              /\ fetchPC = "done" => ~fetchReturn.ok

C27_Origin == {k \in 1..Len(sClaims) : \E n \in 1..Len(sClaims[k]) :
                                          sClaims[k][n] = "origin"}

\* the lexicon countries that occur in those claims
C27_Named ==
    {c \in CountryLexicon :
        \E k \in C27_Origin : \E n \in 1..Len(sClaims[k]) : sClaims[k][n] = c}

\* the sum of the four sub-scores
C27_Sum ==
    calculateCoverage(Len(sClaims), sEvidenceCount)
      + calculateAuthority(sValidation) + calculateFreshness(sValidation)
      + calculateAccessibility(sValidation)

(* C27: Calculate reports a conflict exactly when at least two claims       *)
(* contain "origin" and at least two distinct lexicon countries occur       *)
(* across those claims; exactly then a conflict signal is appended and the  *)
(* index is the sum of the four sub-scores minus 10, floored at 0;          *)
(* otherwise the index is the sum.                                          *)
C27_ConflictPenalty ==
    scorePC # "input" =>
        LET expected == Cardinality(C27_Origin) >= 2 /\ Cardinality(C27_Named) >= 2
        IN /\ sScore.conflict <=> expected
           /\ (\E k \in 1..Len(sScore.signals) :
                   sScore.signals[k].type = "conflict") <=> expected
           /\ sScore.index =
                 IF expected
                 THEN (IF C27_Sum - 10 < 0 THEN 0 ELSE C27_Sum - 10)
                 ELSE C27_Sum

\* a conflict whose penalty is floored at 0
C27_Witness ==
    /\ scorePC = "done"
    /\ sScore.conflict
    /\ C27_Sum < 10
    /\ sScore.index = 0

(* C28: Calculate appends a freshness_anomaly signal exactly when at least  *)
(* 50 validations carry age_days and the median of those ages is below 365  *)
(* days; the signal never changes the index or the confidence.              *)
C28_FreshnessAnomaly ==
    scorePC # "input" =>
        LET ages == AgesOf(sValidation)
            expected == Len(ages) >= 50 /\ MedianAge(ages) < 365
        IN /\ (\E k \in 1..Len(sScore.signals) :
                   sScore.signals[k].type = "freshness_anomaly") <=> expected
           /\ sScore.index =
                 IF sScore.conflict
                 THEN (IF C27_Sum - 10 < 0 THEN 0 ELSE C27_Sum - 10)
                 ELSE C27_Sum

\* the scalars each sub-score is computed from
C29_Inputs(type) ==
    CASE type = "evidence_coverage" -> {"claims", "evidence"}
      [] type = "authority_distribution" ->
            {"primary", "secondary", "tertiary", "total"}
      [] type = "freshness" -> {"samples"}
      [] type = "accessibility" -> {"accessible", "total"}

(* C29: for every input, including zero claims, zero validations and        *)
(* validations without age data, each of the four sub-score signals carries *)
(* in its data map the sub-score, every scalar the sub-score was computed   *)
(* from and the formula string.                                             *)
C29_SubScoreSignalsRecomputable ==
    scorePC # "input" =>
        \A k \in 1..4 :
            ({"score", "formula"} \cup C29_Inputs(sScore.signals[k].type))
                \subseteq DOMAIN sScore.signals[k].data

\* the place of a signal type in the order of a score's signals
C30_Rank(type) ==
    CASE type = "evidence_coverage" -> 1
      [] type = "authority_distribution" -> 2
      [] type = "freshness" -> 3
      [] type = "accessibility" -> 4
      [] type = "conflict" -> 5
      [] type = "freshness_anomaly" -> 6
      [] type = "no_tls" -> 7
      [] type = "expired_certificate" -> 8
      [] type = "self_signed_certificate" -> 9
      [] type = "certificate_mismatch" -> 10
      [] OTHER -> 11

(* C30: in every report the score's signals appear in this order: coverage, *)
(* authority, freshness, accessibility, the conflict signal if any, the     *)
(* freshness anomaly if any, the TLS signals in the order no_tls, expired,  *)
(* self_signed, mismatch, then the Wikipedia signals.                       *)
C30_SignalOrder ==
    scorePC = "appended" =>
        /\ Len(sScore.signals) >= 4
        /\ \A k \in 1..4 : C30_Rank(sScore.signals[k].type) = k
        /\ \A k \in 1..(Len(sScore.signals) - 1) :
              \/ C30_Rank(sScore.signals[k].type)
                    < C30_Rank(sScore.signals[k + 1].type)
              \/ /\ C30_Rank(sScore.signals[k].type) = 11
                 /\ C30_Rank(sScore.signals[k + 1].type) = 11

\* a Wikipedia page with a conflict, a freshness anomaly and a certificate
\* that is expired, self-signed and issued for another domain
C30_Witness ==
    /\ scorePC = "appended"
    /\ [k \in 1..Len(sScore.signals) |-> sScore.signals[k].type]
         = <<"evidence_coverage", "authority_distribution", "freshness",
             "accessibility", "conflict", "freshness_anomaly",
             "expired_certificate", "self_signed_certificate",
             "certificate_mismatch", "edit_war", "historical_entity">>

\* the callers that took a step, and the hosts their calls name
C31_Moved == {c \in LimiterCallers : lpc'[c] # lpc[c]}

C31_StepHosts ==
    {lpc[c].url.host : c \in C31_Moved} \cup {lpc'[c].url.host : c \in C31_Moved}
      \cup (IF limLast'.seq # limLast.seq THEN {limLast'.host} ELSE {})

\* C31: token buckets are per host. At any given instant a call changes the
\* tokens and the rate of no host but the one it names (Wait, Allow and
\* SetDomainRate alike); Allow on the bucket of its host succeeds exactly
\* when that bucket holds a whole token, and takes exactly that token.
C31_PerHostBuckets ==
    [][limNow' = limNow =>
        /\ \A g \in LimiterHosts \ C31_StepHosts :
              /\ AvailableTicks(g)' = AvailableTicks(g)
              /\ TokenTicks(g)' = TokenTicks(g)
        /\ \A c \in LimiterCallers, h \in LimiterHosts :
              (/\ lpc[c].pc = "have"
               /\ lpc[c].op = "allow"
               /\ lpc'[c].pc = "idle"
               /\ lpc[c].url.host = h
               /\ lpc[c].lim = limiters[h])
              => /\ limLast'.ok = (AvailableTicks(h) >= TokenTicks(h))
                 /\ AvailableTicks(h)' =
                      IF limLast'.ok
                      THEN AvailableTicks(h) - TokenTicks(h)
                      ELSE AvailableTicks(h)]_vars

\* Allow has just failed for h1, whose burst is used up, after a request to
\* h2 was let go
C31_Witness ==
    /\ limLast.op = "allow"
    /\ limLast.host = "h1"
    /\ ~limLast.ok
    /\ Len(granted["h1"]) = limBurst
    /\ Len(granted["h2"]) > 0
    /\ overridden = {}

\* C32: whatever the interleaving of Wait and Allow calls that name the same
\* host, getLimiter creates at most one bucket for it; while no override is
\* installed for the host every caller holds the bucket the map holds, and
\* the calls made before the first refill are let go at most burst times.
C32_OneBucketPerHost ==
    \A h \in LimiterHosts :
        /\ created[h] <= 1
        /\ h \notin overridden =>
             /\ \A c \in LimiterCallers :
                   (lpc[c].pc \in {"have", "sleeping"} /\ lpc[c].url.host = h)
                     => lpc[c].lim = limiters[h]
             /\ limNow = 0 => Len(granted[h]) <= limBurst

\* both goroutines found no entry for the same host, took the write lock in
\* turn, and hold a bucket
C32_Witness ==
    \E h \in LimiterHosts :
        /\ created[h] = 1
        /\ h \notin overridden
        /\ \A c \in LimiterCallers :
              lpc[c].pc = "have" /\ lpc[c].slow /\ lpc[c].url.host = h

\* the buckets made for a host, and the most permissive burst and rate
\* among them
C33_Buckets(h) == {i \in DOMAIN buckets : buckets[i].owner = h}

C33_Burst(h) ==
    CHOOSE b \in {buckets[i].burst : i \in C33_Buckets(h)} :
        \A i \in C33_Buckets(h) : buckets[i].burst <= b

C33_Interval(h) ==
    CHOOSE v \in {buckets[i].interval : i \in C33_Buckets(h)} :
        \A i \in C33_Buckets(h) : buckets[i].interval >= v

\* C33: for each host, whatever the sequence and interleaving of Wait, Allow
\* and SetDomainRate, the requests let go in any stretch of time number at
\* most the burst plus one per 1/rps elapsed (burst and rps being the most
\* permissive ever configured for the host).
C33_SpacedBeyondBurst ==
    \A h \in LimiterHosts :
        \A i, j \in DOMAIN granted[h] :
            i <= j =>
              j - i + 1 <= C33_Burst(h)
                             + ((granted[h][j] - granted[h][i])
                                  \div C33_Interval(h))

\* C34: whatever the sequence and interleaving of CanFetch calls, the
\* robots.txt of a host is requested over the network at most once in the
\* lifetime of the checker.
C34_RobotsFetchedOnce ==
    \A h \in RobotsHosts : robotsFetches[h] <= 1

\* C35: the robots checker fails open. When the GET of robots.txt fails or
\* its body does not parse, CanFetch answers allowed with zero delay and no
\* error; data made from a 404 allows every path with zero delay, and so
\* does every answer of CanFetch given from it.
C35_FailOpen ==
    /\ robotsLast.met \in {"error", "parse"} =>
         robotsLast.allowed /\ robotsLast.delay = 0 /\ ~robotsLast.err
    /\ (robotsLast.met \in {"status", "cache"} /\ robotsLast.status = 404) =>
         robotsLast.allowed /\ robotsLast.delay = 0 /\ ~robotsLast.err
    /\ \A h \in RobotsHosts :
          (robotsCache[h].present /\ robotsCache[h].status = 404) =>
             /\ \A p \in RobotsPaths : TestAgent(robotsCache[h], p)
             /\ CrawlDelay(robotsCache[h]) = 0

\* a call for /private met a failed GET or a body that does not parse,
\* while the data made from a 404 is cached for a host
C35_Witness ==
    /\ robotsLast.met \in {"error", "parse"}
    /\ robotsLast.url.path = "/private"
    /\ \E h \in RobotsHosts :
          robotsCache[h].present /\ robotsCache[h].status = 404

\* the robots.txt published by the site of the scanned URLs, and the path
\* of each URL: the page u1 is disallowed
C36_SiteRobots ==
    FromStatusAndBytes([kind |-> "status", status |-> 200, parses |-> TRUE,
                        disallow |-> {"/private"}, delay |-> 0]).data

C36_Path(u) == IF u = "u1" THEN "/private" ELSE "/"

\* C36: ScanURL sends the GET of the page only after the robots checker has
\* allowed the URL: a page its site's robots.txt disallows is never fetched.
C36_DisallowedNeverFetched ==
    (scanLast.called /\ "fetch" \in scanLast.calls)
        => /\ "robots.CanFetch" \in scanLast.calls
           /\ TestAgent(C36_SiteRobots, C36_Path(scanLast.url))

\* the tier a tier name stands for
C37_Named(name) ==
    IF name = "primary" THEN TierPrimary
    ELSE IF name = "secondary" THEN TierSecondary
    ELSE TierTertiary

\* the host is the domain or a subdomain of it
C37_Under(host, domain) ==
    \E k \in 0..Len(host) :
        /\ k + Len(domain) = Len(host)
        /\ \A i \in 1..Len(domain) : host[k + i] = domain[i]

\* the patterns of the configuration that compile and match the path
C37_Matching(config, path) ==
    {i \in DOMAIN config.patterns :
        config.patterns[i].compiles /\ path \in config.patterns[i].matches}

C37_FirstMatching(config, path) ==
    CHOOSE i \in C37_Matching(config, path) :
        \A j \in C37_Matching(config, path) : i <= j

\* the tier the ordered rules give a URL
C37_Expected(config, rawURL) ==
    IF ~rawURL.valid THEN TierTertiary
    ELSE IF rawURL.host \in DOMAIN config.domainMap
    THEN C37_Named(config.domainMap[rawURL.host])
    ELSE IF \E d \in config.primary : C37_Under(rawURL.host, d)
    THEN TierPrimary
    ELSE IF \E d \in config.secondary : C37_Under(rawURL.host, d)
    THEN TierSecondary
    ELSE IF C37_Matching(config, rawURL.path) # {}
    THEN C37_Named(ToLower(
             config.patterns[C37_FirstMatching(config, rawURL.path)].tier))
    ELSE IF \E k \in 1..Len(rawURL.host) :
               SubSeq(rawURL.host, k + 1, Len(rawURL.host))
                 \in {<<"gov">>, <<"edu">>, <<"ac", "uk">>}
    THEN TierPrimary
    ELSE TierTertiary

\* C37: Classify gives the tier of the first rule that matches, in the
\* order: domain_map entry of the host (port stripped), primary domain (the
\* host or a subdomain), secondary domain, first matching path pattern,
\* host ending in .gov, .edu or .ac.uk (primary), otherwise tertiary; a URL
\* that does not parse is tertiary; the order in which the maps are ranged
\* over changes nothing.
C37_FirstMatchingRule ==
    cResult.called => cResult.tier = C37_Expected(cConfig, cURL)

\* a URL with a port whose host has a domain_map entry, lies under a
\* primary and under a secondary domain, matches a path pattern and ends in
\* .gov was given the tier of its domain_map entry
C37_Witness ==
    /\ cResult.called
    /\ cURL.valid
    /\ cURL.port
    /\ cURL.host = <<"w", "a", "gov">>
    /\ cURL.host \in DOMAIN cConfig.domainMap
    /\ cConfig.primary = {<<"a", "gov">>, <<"com">>}
    /\ <<"a", "gov">> \in cConfig.secondary
    /\ C37_Matching(cConfig, cURL.path) # {}
    /\ cResult.tier = TierTertiary

\* C38: Delete and Clear of the layered cache are idempotent and report no
\* error for what is not there: each returns nil; Delete of a key neither
\* tier holds and Clear of an empty cache change nothing; after Delete(key)
\* neither tier has a hit for the key and Get(key) misses; the same call
\* made again changes nothing and returns nil again.
C38_DeleteClearIdempotent ==
    lastDelete.called =>
        /\ ~lastDelete.err
        /\ lastDelete.absent => ~lastDelete.changed
        /\ lastDelete.op = "delete" =>
             /\ ~MemoryHit(memory, lastDelete.key, now)
             /\ ~DiskHit(disk, lastDelete.key, now)
             /\ ~LayeredGet(memory, disk, lastDelete.key, now, memoryTTL).hit
             /\ LayeredDelete(memory, disk, lastDelete.key)
                  = [memory |-> memory, disk |-> disk, err |-> FALSE]
        /\ lastDelete.op = "clear" =>
             LayeredClear(memory, disk)
               = [memory |-> memory, disk |-> disk, err |-> FALSE]

\* Delete of a key that neither tier holds has just returned, while the
\* other key is held on disk
C38_Witness ==
    /\ lastDelete.called
    /\ lastDelete.op = "delete"
    /\ lastDelete.absent
    /\ \E k \in CacheKeys : k # lastDelete.key /\ disk[k].present

\* C39: in the retry loop of the validator a cancelled context ends the
\* backoff wait and no further attempt follows: a goroutine that is in its
\* backoff wait while the context is cancelled does not go on to another
\* probe, and no retry attempt (one after a backoff) is started once the
\* context is cancelled.
C39_CancelEndsRetry ==
    [][\A i \in EvidenceIds :
         /\ (ctxDone /\ gpc[i] = "backoff") => gpc'[i] # "probe"
         /\ (ctxDone /\ attempt[i] > 0) => heads'[i] = heads[i]]_vars

\* C40: Validate returns only after every per-evidence goroutine has
\* finished: once it has returned no probe is in flight, no semaphore slot is
\* held, every goroutine has ended, and no step that writes an element of
\* the result list can still be taken.
C40_ReturnsAfterAllGoroutines ==
    valPC = "returned" =>
        /\ InFlight = {}
        /\ semaphore = 0
        /\ \A i \in 1..Len(evidence) : gpc[i] = "done"
        /\ \A i \in EvidenceIds :
             ~(ENABLED GFinish(i)) /\ ~(ENABLED GCancelled(i))

\* Validate has returned for two evidence items, one probed (it held a
\* semaphore slot) and one answered by the cancellation branch
C40_Witness ==
    /\ valPC = "returned"
    /\ Len(evidence) = 2
    /\ \E i, j \in 1..2 :
         /\ heads[i] > 0
         /\ vresults[j] = CancelledResult(evidence[j])

====
